---- MODULE Spec2Model ----
(***************************************************************************)
(* Model of the session-lifecycle and request layer of the read-only       *)
(* Grafana gateway: src/src/config.py (GrafanaConnection, ConfigParser),   *)
(* src/src/grafana_connector.py (GrafanaConnector) and the tool handlers   *)
(* of src/src/server.py.                                                   *)
(*                                                                         *)
(* Strings are tuples of one-character strings, so that the parsing the    *)
(* code does (split, strip, startswith, unquote, splitlines) is computed   *)
(* and not assumed.                                                        *)
(***************************************************************************)
EXTENDS Integers, Sequences, FiniteSets, TLC

VARIABLES
    phase,        \* "start" | "running" | "failed": ReadOnlyGrafanaServer.__init__;
                  \* "exited": main has returned or left through sys.exit
    environ,      \* os.environ restricted to the GRAFANA_SESSION_* / GRAFANA_TIMEOUT_* names
    envFile,      \* content of the .env file (a string), or NoFile
    fileWritable, \* whether write_text on .env succeeds (file permissions)
    connections,  \* server.connections: name -> GrafanaConnection fields
    connectors,   \* server.connectors: name -> the client's cookie and transport settings
    tasks,        \* the tool invocations in flight, each suspended at its await
    interrupted,  \* history: connections whose last rotation stopped at a failed store write
    rotated,      \* history: per connection, the token of the latest applied rotation
    sent,         \* history: number of HTTP requests sent so far
    edits,        \* history: number of external edits of .env so far
    ev            \* history: what the latest step did (operation, outcome, effects)

vars == <<phase, environ, envFile, fileWritable, connections, connectors, tasks,
          interrupted, rotated, sent, edits, ev>>

-----------------------------------------------------------------------------
(* Bounds of the model *)

\* tool invocations that may be in flight at the same time
NumTasks == 2
\* HTTP requests sent in one behaviour
MaxRequests == 2
\* external edits of the credential file in one behaviour
MaxEdits == 1

-----------------------------------------------------------------------------
(* Strings *)

\* None (os.getenv of an unset name, a missing dict key): equal to no string
NoVal == <<"<None>">>
\* Path(".env").exists() is False
NoFile == <<"<NoFile>">>

LowerCase == <<"a","b","c","d","e","f","g","h","i","j","k","l","m",
               "n","o","p","q","r","s","t","u","v","w","x","y","z">>
UpperCase == <<"A","B","C","D","E","F","G","H","I","J","K","L","M",
               "N","O","P","Q","R","S","T","U","V","W","X","Y","Z">>
Digits == <<"0","1","2","3","4","5","6","7","8","9">>

InSeq(ch, s) == \E i \in 1..Len(s) : s[i] = ch
PosIn(ch, s) == CHOOSE i \in 1..Len(s) : s[i] = ch

\* str.upper() on one character
Upper(ch) == IF InSeq(ch, LowerCase) THEN UpperCase[PosIn(ch, LowerCase)] ELSE ch

\* index of the first occurrence of ch in s, 0 when there is none
Find(s, ch) ==
    IF InSeq(ch, s)
    THEN CHOOSE i \in 1..Len(s) : s[i] = ch /\ \A j \in 1..(i-1) : s[j] # ch
    ELSE 0

\* s.startswith(p)
StartsWith(s, p) == Len(s) >= Len(p) /\ SubSeq(s, 1, Len(p)) = p

\* p in s
Contains(s, p) == \E i \in 1..(Len(s) - Len(p) + 1) : SubSeq(s, i, i + Len(p) - 1) = p

\* s.split(ch)
RECURSIVE Split(_, _)
Split(s, ch) ==
    LET i == Find(s, ch)
    IN  IF i = 0 THEN <<s>>
        ELSE <<SubSeq(s, 1, i - 1)>> \o Split(SubSeq(s, i + 1, Len(s)), ch)

\* s.split(ch, 1)[1]: what follows the first ch
AfterFirst(s, ch) == SubSeq(s, Find(s, ch) + 1, Len(s))
\* s.split(ch, 1)[0]
BeforeFirst(s, ch) == SubSeq(s, 1, Find(s, ch) - 1)

IsSpace(ch) == ch \in {" ", "\t", "\n", "\r"}

\* s.strip()
RECURSIVE LStrip(_)
LStrip(s) == IF s # <<>> /\ IsSpace(s[1]) THEN LStrip(Tail(s)) ELSE s
RECURSIVE RStrip(_)
RStrip(s) == IF s # <<>> /\ IsSpace(s[Len(s)]) THEN RStrip(SubSeq(s, 1, Len(s) - 1)) ELSE s
Strip(s) == RStrip(LStrip(s))

\* sep.join(parts)
RECURSIVE Join(_, _)
Join(parts, sep) ==
    IF parts = <<>> THEN <<>>
    ELSE IF Len(parts) = 1 THEN parts[1]
    ELSE parts[1] \o sep \o Join(Tail(parts), sep)

\* str.splitlines(): breaks at \n, \r\n and \r; no empty last line
RECURSIVE splitlines(_)
splitlines(s) ==
    IF s = <<>> THEN <<>>
    ELSE LET brk == {i \in 1..Len(s) : s[i] \in {"\n", "\r"}}
         IN  IF brk = {} THEN <<s>>
             ELSE LET i == CHOOSE k \in brk : \A j \in brk : k <= j
                      skip == IF s[i] = "\r" /\ i < Len(s) /\ s[i + 1] = "\n" THEN 2 ELSE 1
                  IN  <<SubSeq(s, 1, i - 1)>> \o splitlines(SubSeq(s, i + skip, Len(s)))

\* the characters urllib.parse.unquote decodes in this model: escape -> character
HexDigits == Digits \o <<"A","B","C","D","E","F","a","b","c","d","e","f">>
PercentTable == { <<<<"2","B">>, "+">>, <<<<"2","b">>, "+">>,
                  <<<<"3","D">>, "=">>, <<<<"3","d">>, "=">>,
                  <<<<"2","5">>, "%">>, <<<<"3","B">>, ";">>,
                  <<<<"3","b">>, ";">>, <<<<"2","0">>, " ">> }

\* urllib.parse.unquote: %XX with two hex digits becomes the character, anything
\* else is kept; an escape outside PercentTable decodes to "?"
RECURSIVE unquote(_)
\* a variant of unquote that leaves the escapes as they are
unquote_Identity(s) == s

unquote(s) ==
    IF s = <<>> THEN <<>>
    ELSE IF s[1] = "%" /\ Len(s) >= 3 /\ InSeq(s[2], HexDigits) /\ InSeq(s[3], HexDigits)
    THEN LET hit == {p \in PercentTable : p[1] = <<s[2], s[3]>>}
         IN  <<IF hit = {} THEN "?" ELSE (CHOOSE p \in hit : TRUE)[2]>>
                 \o unquote(SubSeq(s, 4, Len(s)))
    ELSE <<s[1]>> \o unquote(Tail(s))

-----------------------------------------------------------------------------
(* Configuration: connections.yaml and the credential source *)

\* Field(30): the default timeout of a connection
DefaultTimeout == 30

\* the parsed connections.yaml: two connections, the second with a hyphen in its
\* name, a timeout of its own and TLS verification off
Config ==
    << [connection_name |-> <<"a">>, url |-> "https://a.example",
        description |-> "", timeout |-> DefaultTimeout, verify_ssl |-> TRUE],
       [connection_name |-> <<"b", "-", "c">>, url |-> "https://b.example",
        description |-> "staging", timeout |-> 60, verify_ssl |-> FALSE] >>

ConfigNames == {Config[i].connection_name : i \in 1..Len(Config)}

\* a name no connection has
UnknownName == <<"z">>

SESSION_PREFIX == <<"G","R","A","F","A","N","A","_","S","E","S","S","I","O","N","_">>
TIMEOUT_PREFIX == <<"G","R","A","F","A","N","A","_","T","I","M","E","O","U","T","_">>
COOKIE_NAME == <<"g","r","a","f","a","n","a","_","s","e","s","s","i","o","n">>

\* name.upper().replace('-', '_')
UpperUnderscore(name) ==
    [i \in 1..Len(name) |-> IF Upper(name[i]) = "-" THEN "_" ELSE Upper(name[i])]

\* GrafanaConnection.get_env_var_name
get_env_var_name(name) == SESSION_PREFIX \o UpperUnderscore(name)

\* the name of the timeout override of a connection
timeout_env_var(name) == TIMEOUT_PREFIX \o UpperUnderscore(name)

\* the environment variables the program reads
EnvVars == {get_env_var_name(n) : n \in ConfigNames} \cup {timeout_env_var(n) : n \in ConfigNames}

\* os.getenv(name)
getenv(env, name) == IF name \in DOMAIN env THEN env[name] ELSE NoVal

\* dotenv's reading of .env: the KEY=VALUE bindings of its lines, in file order
RECURSIVE Bindings(_)
Bindings(lines) ==
    IF lines = <<>> THEN <<>>
    ELSE LET line == Head(lines)
         IN  (IF Find(line, "=") = 0 THEN <<>>
              ELSE << <<Strip(BeforeFirst(line, "=")), Strip(AfterFirst(line, "="))>> >>)
             \o Bindings(Tail(lines))

dotenv_values(file) == IF file = NoFile THEN <<>> ELSE Bindings(splitlines(file))

\* dotenv's set_as_environment_variables: a binding is skipped when the name is
\* already set and override is off
RECURSIVE SetEnv(_, _, _)
SetEnv(env, binds, override) ==
    IF binds = <<>> THEN env
    ELSE LET k == Head(binds)[1]
             v == Head(binds)[2]
             set == k \in DOMAIN env /\ (override \/ env[k] = NoVal)
         IN  SetEnv(IF set THEN [env EXCEPT ![k] = v] ELSE env, Tail(binds), override)

\* the value .env binds to a name (the last binding wins), or NoVal
StoreValue(file, name) ==
    LET binds == dotenv_values(file)
        hits == {i \in 1..Len(binds) : binds[i][1] = name}
    IN  IF hits = {} THEN NoVal
        ELSE binds[CHOOSE i \in hits : \A j \in hits : j <= i][2]

\* int(s) for a string of decimal digits; -1 when int() raises ValueError
RECURSIVE IntOf(_)
IntOf(s) == IF s = <<>> THEN 0 ELSE 10 * IntOf(SubSeq(s, 1, Len(s) - 1)) + (PosIn(s[Len(s)], Digits) - 1)
ParseInt(s) ==
    IF s # <<>> /\ \A i \in 1..Len(s) : InSeq(s[i], Digits) THEN IntOf(s) ELSE -1

-----------------------------------------------------------------------------
(* The world a handler step reads and writes.  A step of a coroutine runs   *)
(* from one await to the next without interruption, so its calls are        *)
(* composed as functions of this record and committed at once.              *)

World ==
    [environ |-> environ, envFile |-> envFile, connections |-> connections,
     connectors |-> connectors, interrupted |-> interrupted, rotated |-> rotated,
     log |-> <<>>]

Logged(w, e) == [w EXCEPT !.log = Append(@, e)]

\* load_dotenv(override=...): .env's bindings into os.environ
load_dotenv(w, override) ==
    Logged([w EXCEPT !.environ = SetEnv(w.environ, dotenv_values(w.envFile), override)],
           [kind |-> "store_read"])

\* GrafanaConnection.reload_session_token, with override off: a stale os.environ wins
reload_session_token_NoOverride(w, c) ==
    LET w1 == load_dotenv(w, FALSE)
        session_token == getenv(w1.environ, get_env_var_name(c))
    IN  IF session_token = NoVal \/ session_token = <<>>
        THEN [w |-> Logged(w1, [kind |-> "token_read", conn |-> c, ok |-> FALSE]),
              raised |-> TRUE, token |-> NoVal]
        ELSE [w |-> Logged([w1 EXCEPT !.connections[c].session_token = session_token],
                           [kind |-> "token_read", conn |-> c, ok |-> TRUE]),
              raised |-> FALSE, token |-> session_token]

\* GrafanaConnection.reload_session_token: raised is the ValueError of a missing token
reload_session_token(w, c) ==
    LET w1 == load_dotenv(w, TRUE)
        session_token == getenv(w1.environ, get_env_var_name(c))
    IN  IF session_token = NoVal \/ session_token = <<>>
        THEN [w |-> Logged(w1, [kind |-> "token_read", conn |-> c, ok |-> FALSE]),
              raised |-> TRUE, token |-> NoVal]
        ELSE [w |-> Logged([w1 EXCEPT !.connections[c].session_token = session_token],
                           [kind |-> "token_read", conn |-> c, ok |-> TRUE]),
              raised |-> FALSE, token |-> session_token]

\* a variant of _persist_token_to_env that creates .env when it is missing
_persist_token_to_env_CreatesFile(w, c, new_token) ==
    LET key == get_env_var_name(c) \o <<"=">>
    IN  IF w.envFile = NoFile
        THEN [w |-> Logged([w EXCEPT !.envFile = key \o new_token \o <<"\n">>],
                           [kind |-> "store_write", conn |-> c, value |-> new_token]),
              raised |-> FALSE]
        ELSE LET lines == splitlines(w.envFile)
                 hits == {i \in 1..Len(lines) : StartsWith(lines[i], key)}
             IN  IF hits = {} THEN [w |-> w, raised |-> FALSE]
                 ELSE LET i == CHOOSE k \in hits : \A j \in hits : k <= j
                          updated == [lines EXCEPT ![i] = key \o new_token]
                      IN  IF fileWritable
                          THEN [w |-> Logged([w EXCEPT !.envFile =
                                                  Join(updated, <<"\n">>) \o <<"\n">>],
                                             [kind |-> "store_write", conn |-> c,
                                              value |-> new_token]),
                                raised |-> FALSE]
                          ELSE [w |-> Logged(w, [kind |-> "store_write_failed", conn |-> c]),
                                raised |-> TRUE]

\* a variant of _persist_token_to_env that adds the new line after the old one
\* instead of replacing it
_persist_token_to_env_Appends(w, c, new_token) ==
    IF w.envFile = NoFile THEN [w |-> w, raised |-> FALSE]
    ELSE LET lines == splitlines(w.envFile)
             key == get_env_var_name(c) \o <<"=">>
             hits == {i \in 1..Len(lines) : StartsWith(lines[i], key)}
         IN  IF hits = {} THEN [w |-> w, raised |-> FALSE]
             ELSE LET updated == Append(lines, key \o new_token)
                  IN  IF fileWritable
                      THEN [w |-> Logged([w EXCEPT !.envFile = Join(updated, <<"\n">>) \o <<"\n">>],
                                         [kind |-> "store_write", conn |-> c, value |-> new_token]),
                            raised |-> FALSE]
                      ELSE [w |-> Logged(w, [kind |-> "store_write_failed", conn |-> c]),
                            raised |-> TRUE]

\* GrafanaConnection._persist_token_to_env: raised is the OSError of write_text
\* on a file that cannot be written
_persist_token_to_env(w, c, new_token) ==
    IF w.envFile = NoFile THEN [w |-> w, raised |-> FALSE]
    ELSE LET lines == splitlines(w.envFile)
             key == get_env_var_name(c) \o <<"=">>
             hits == {i \in 1..Len(lines) : StartsWith(lines[i], key)}
         IN  IF hits = {} THEN [w |-> w, raised |-> FALSE]
             ELSE LET i == CHOOSE k \in hits : \A j \in hits : k <= j
                      updated == [lines EXCEPT ![i] = key \o new_token]
                  IN  IF fileWritable
                      THEN [w |-> Logged([w EXCEPT !.envFile = Join(updated, <<"\n">>) \o <<"\n">>],
                                         [kind |-> "store_write", conn |-> c, value |-> new_token]),
                            raised |-> FALSE]
                      ELSE [w |-> Logged(w, [kind |-> "store_write_failed", conn |-> c]),
                            raised |-> TRUE]

\* GrafanaConnection.update_session_token
update_session_token(w, c, new_token, persist) ==
    LET w1 == [w EXCEPT !.connections[c].session_token = new_token,
                        !.rotated[c] = new_token]
    IN  IF persist THEN _persist_token_to_env(w1, c, new_token)
        ELSE [w |-> w1, raised |-> FALSE]

-----------------------------------------------------------------------------
(* GrafanaConnector: the request primitive *)

\* what a call returns or raises
NoError == [kind |-> "none"]
Ok(v) == [ok |-> TRUE, value |-> v, error |-> NoError]
Err(e) == [ok |-> FALSE, value |-> "", error |-> e]
NoResult == [ok |-> FALSE, value |-> "", error |-> [kind |-> "pending"]]

\* the exceptions of the code, by the message each is built from
MissingCredential(c) ==
    [kind |-> "MissingCredential", exc |-> "ValueError", name |-> c, var |-> get_env_var_name(c)]
UnknownConnection(name, available) ==
    [kind |-> "UnknownConnection", exc |-> "ValueError", name |-> name, available |-> available]
\* pydantic's ValidationError for a refused connection name
InvalidName(name) == [kind |-> "ValidationError", exc |-> "ValueError", name |-> name]
\* the Exception get_dashboard_panel raises for a panel id the dashboard lacks
NotFound(panel_id, dashboard_uid) ==
    [kind |-> "NotFound", exc |-> "Exception", panel_id |-> panel_id,
     dashboard_uid |-> dashboard_uid]
\* the ValueError of explore_query for an option that collides with a reserved key
InvalidArgument(keys) == [kind |-> "InvalidArgument", exc |-> "ValueError", keys |-> keys]
AuthenticationExpired(c) == [kind |-> "AuthenticationExpired", exc |-> "Exception", name |-> c]
PermissionDenied(c) == [kind |-> "PermissionDenied", exc |-> "Exception", name |-> c]
UpstreamError(status, text) ==
    [kind |-> "UpstreamError", exc |-> "Exception", status |-> status, body |-> text]
RequestTimeout(seconds) == [kind |-> "RequestTimeout", exc |-> "Exception", timeout |-> seconds]
TransportError(cause) == [kind |-> "TransportError", exc |-> "Exception", cause |-> cause]

\* the text of each exception: the literal pieces of its f-string and the
\* values interpolated between them
Lit(text) == [part |-> "literal", text |-> text]
Val(what, v) == [part |-> what, v |-> v]
Message(e) ==
    CASE e.kind = "MissingCredential" ->
            <<Lit("Missing session token for connection '"), Val("connection_name", e.name),
              Lit("'. Please set environment variable: "), Val("env_var_name", e.var)>>
      [] e.kind = "UnknownConnection" ->
            <<Lit("Connection '"), Val("connection_name", e.name),
              Lit("' not found. Available connections: "), Val("connectors", e.available)>>
      [] e.kind = "AuthenticationExpired" ->
            <<Lit("Authentication failed for "), Val("connection_name", e.name),
              Lit(". Session may have expired.")>>
      [] e.kind = "PermissionDenied" ->
            <<Lit("Permission denied for "), Val("connection_name", e.name),
              Lit(". User may lack read permissions.")>>
      [] e.kind = "UpstreamError" ->
            <<Lit("HTTP "), Val("status_code", e.status), Lit(": "), Val("response_text", e.body)>>
      [] e.kind = "RequestTimeout" ->
            <<Lit("Request timed out after "), Val("timeout", e.timeout), Lit(" seconds")>>
      [] e.kind = "TransportError" ->
            <<Lit("Request failed: "), Val("cause", e.cause)>>
      [] e.kind = "NotFound" ->
            <<Lit("Panel with id "), Val("panel_id", e.panel_id),
              Lit(" not found in dashboard "), Val("dashboard_uid", e.dashboard_uid)>>
      [] OTHER -> <<>>

\* the inner loop of _check_and_update_session_cookie: the first part of one
\* header that starts with grafana_session= is compared and applied, then break
RECURSIVE CheckParts(_, _, _)
\* a variant of CheckParts without the comparison against the current token
CheckParts_AlwaysUpdates(w, c, parts) ==
    IF parts = <<>> THEN [w |-> w, raised |-> FALSE]
    ELSE LET part == Strip(Head(parts))
         IN  IF StartsWith(part, COOKIE_NAME \o <<"=">>)
             THEN LET new_token == unquote(AfterFirst(part, "="))
                      u == update_session_token(w, c, new_token, TRUE)
                  IN  IF u.raised
                      THEN [w |-> [u.w EXCEPT !.interrupted = @ \cup {c}], raised |-> TRUE]
                      ELSE [w |-> [u.w EXCEPT !.connectors[c].cookie = new_token],
                            raised |-> FALSE]
             ELSE CheckParts(w, c, Tail(parts))

\* a variant of CheckParts that sets the client's cookie before it updates the
\* token and writes .env
CheckParts_CookieFirst(w, c, parts) ==
    IF parts = <<>> THEN [w |-> w, raised |-> FALSE]
    ELSE LET part == Strip(Head(parts))
         IN  IF StartsWith(part, COOKIE_NAME \o <<"=">>)
             THEN LET new_token == unquote(AfterFirst(part, "="))
                  IN  IF new_token # w.connections[c].session_token
                      THEN LET u == update_session_token(
                                        [w EXCEPT !.connectors[c].cookie = new_token],
                                        c, new_token, TRUE)
                           IN  IF u.raised
                               THEN [w |-> [u.w EXCEPT !.interrupted = @ \cup {c}],
                                     raised |-> TRUE]
                               ELSE [w |-> u.w, raised |-> FALSE]
                      ELSE [w |-> w, raised |-> FALSE]
             ELSE CheckParts(w, c, Tail(parts))

\* a variant of CheckParts that looks for grafana_session= anywhere in the part
CheckParts_MatchesAnywhere(w, c, parts) ==
    IF parts = <<>> THEN [w |-> w, raised |-> FALSE]
    ELSE LET part == Strip(Head(parts))
         IN  IF Contains(part, COOKIE_NAME \o <<"=">>)
             THEN LET new_token == unquote(AfterFirst(part, "="))
                  IN  IF new_token # w.connections[c].session_token
                      THEN LET u == update_session_token(w, c, new_token, TRUE)
                           IN  IF u.raised
                               THEN [w |-> [u.w EXCEPT !.interrupted = @ \cup {c}],
                                     raised |-> TRUE]
                               ELSE [w |-> [u.w EXCEPT !.connectors[c].cookie = new_token],
                                     raised |-> FALSE]
                      ELSE [w |-> w, raised |-> FALSE]
             ELSE CheckParts(w, c, Tail(parts))

CheckParts(w, c, parts) ==
    IF parts = <<>> THEN [w |-> w, raised |-> FALSE]
    ELSE LET part == Strip(Head(parts))
         IN  IF StartsWith(part, COOKIE_NAME \o <<"=">>)
             THEN LET new_token == unquote(AfterFirst(part, "="))
                  IN  IF new_token # w.connections[c].session_token
                      THEN LET u == update_session_token(w, c, new_token, TRUE)
                           IN  IF u.raised
                               THEN [w |-> [u.w EXCEPT !.interrupted = @ \cup {c}],
                                     raised |-> TRUE]
                               ELSE [w |-> [u.w EXCEPT !.connectors[c].cookie = new_token],
                                     raised |-> FALSE]
                      ELSE [w |-> w, raised |-> FALSE]
             ELSE CheckParts(w, c, Tail(parts))

\* the outer loop: every Set-Cookie header, in header order
RECURSIVE CheckHeaders(_, _, _)
CheckHeaders(w, c, headers) ==
    IF headers = <<>> THEN [w |-> w, raised |-> FALSE]
    ELSE LET cookie_header == Head(headers)
             r == IF Contains(cookie_header, COOKIE_NAME \o <<"=">>)
                  THEN CheckParts(w, c, Split(cookie_header, ";"))
                  ELSE [w |-> w, raised |-> FALSE]
         IN  IF r.raised THEN r ELSE CheckHeaders(r.w, c, Tail(headers))

\* GrafanaConnector._check_and_update_session_cookie
_check_and_update_session_cookie(w, c, response) == CheckHeaders(w, c, response.headers)

\* the connection's state as a request sees it
Snapshot(w, c) ==
    [token |-> w.connections[c].session_token, cookie |-> w.connectors[c].cookie,
     store |-> StoreValue(w.envFile, get_env_var_name(c))]

\* a variant of _get_send that hands the request to the transport as a POST
_get_send_Post(w, c, endpoint) ==
    LET r == reload_session_token(w, c)
    IN  IF r.raised THEN [w |-> r.w, raised |-> TRUE]
        ELSE LET w1 == [r.w EXCEPT !.connectors[c].cookie = r.token,
                                   !.interrupted = @ \ {c}]
             IN  [w |-> Logged(w1, [kind |-> "http", conn |-> c, method |-> "POST",
                                    base_url |-> w1.connectors[c].base_url,
                                    path |-> "/api" \o endpoint,
                                    cookie |-> w1.connectors[c].cookie,
                                    timeout |-> w1.connectors[c].timeout,
                                    verify |-> w1.connectors[c].verify]),
                  raised |-> FALSE]

\* GrafanaConnector._get up to its await: the token is reloaded, the cookie set
\* and the GET handed to the transport; raised is reload's ValueError
_get_send(w, c, endpoint) ==
    LET r == reload_session_token(w, c)
    IN  IF r.raised THEN [w |-> r.w, raised |-> TRUE]
        ELSE LET w1 == [r.w EXCEPT !.connectors[c].cookie = r.token,
                                   !.interrupted = @ \ {c}]
             IN  [w |-> Logged(w1, [kind |-> "http", conn |-> c, method |-> "GET",
                                    base_url |-> w1.connectors[c].base_url,
                                    path |-> "/api" \o endpoint,
                                    cookie |-> w1.connectors[c].cookie,
                                    timeout |-> w1.connectors[c].timeout,
                                    verify |-> w1.connectors[c].verify]),
                  raised |-> FALSE]

\* response.raise_for_status(): is_success is 2xx
IsSuccess(status) == status \in 200..299

\* a variant of StatusError without the 403 branch
StatusError_Only401(c, response) ==
    IF response.status = 401 THEN AuthenticationExpired(c)
    ELSE UpstreamError(response.status, response.text)

\* the except clauses of _get for a response that raise_for_status rejects
StatusError(c, response) ==
    IF response.status = 401 THEN AuthenticationExpired(c)
    ELSE IF response.status = 403 THEN PermissionDenied(c)
    ELSE UpstreamError(response.status, response.text)

\* a variant of _get_receive that looks for a rotated cookie before
\* raise_for_status, on every response
_get_receive_ChecksCookieFirst(w, c, outcome) ==
    LET w0 == Logged(w, [kind |-> "response", conn |-> c, outcome |-> outcome,
                         before |-> Snapshot(w, c)])
        r == IF outcome.kind = "timeout"
             THEN [w |-> w0, result |-> Err(RequestTimeout(w0.connections[c].timeout))]
             ELSE IF outcome.kind = "transport"
             THEN [w |-> w0, result |-> Err(TransportError(outcome.cause))]
             ELSE LET k == _check_and_update_session_cookie(w0, c, outcome)
                  IN  IF k.raised
                      THEN [w |-> k.w, result |-> Err(TransportError("OSError"))]
                      ELSE IF ~IsSuccess(outcome.status)
                      THEN [w |-> k.w, result |-> Err(StatusError(c, outcome))]
                      ELSE [w |-> k.w, result |-> Ok(outcome.text)]
    IN  [w |-> Logged(r.w, [kind |-> "returned", conn |-> c, result |-> r.result,
                            after |-> Snapshot(r.w, c)]),
         result |-> r.result]

\* GrafanaConnector._get from its await on: what the transport delivered is
\* classified, and a 2xx response is searched for a rotated cookie
_get_receive(w, c, outcome) ==
    LET w0 == Logged(w, [kind |-> "response", conn |-> c, outcome |-> outcome,
                         before |-> Snapshot(w, c)])
        r == IF outcome.kind = "timeout"
             THEN [w |-> w0, result |-> Err(RequestTimeout(w0.connections[c].timeout))]
             ELSE IF outcome.kind = "transport"
             THEN [w |-> w0, result |-> Err(TransportError(outcome.cause))]
             ELSE IF ~IsSuccess(outcome.status)
             THEN [w |-> w0, result |-> Err(StatusError(c, outcome))]
             ELSE LET k == _check_and_update_session_cookie(w0, c, outcome)
                  IN  IF k.raised
                      THEN [w |-> k.w, result |-> Err(TransportError("OSError"))]
                      ELSE [w |-> k.w, result |-> Ok(outcome.text)]
    IN  [w |-> Logged(r.w, [kind |-> "returned", conn |-> c, result |-> r.result,
                            after |-> Snapshot(r.w, c)]),
         result |-> r.result]

-----------------------------------------------------------------------------
(* GrafanaConnector: the operations.  Every handler but get_health and      *)
(* list_alerts issues one _get and reshapes its value; list_folders stands  *)
(* for them.                                                                *)

Ops == {"get_health", "list_alerts", "list_folders"}

\* the endpoint of the stage-th _get of an operation
Endpoint(op, stage) ==
    CASE op = "get_health" /\ stage = 1 -> "/health"
      [] op = "get_health" /\ stage = 2 -> "/frontend/settings"
      [] op = "list_alerts" /\ stage = 1 -> "/ruler/grafana/api/v1/rules"
      [] op = "list_alerts" /\ stage = 2 -> "/alerts"
      [] OTHER -> "/folders"

Awaiting(w, stage) == [w |-> w, pc |-> "await", stage |-> stage, result |-> NoResult]
Done(w, r) == [w |-> w, pc |-> "idle", stage |-> 0, result |-> r]

RECURSIVE StartGet(_, _, _, _)
RECURSIVE Continue(_, _, _, _, _)

\* the stage-th _get of op is called: it suspends at its await, or raises at once
StartGet(w, op, c, stage) ==
    LET b == _get_send(w, c, Endpoint(op, stage))
    IN  IF b.raised THEN Continue(b.w, op, c, stage, Err(MissingCredential(c)))
        ELSE Awaiting(b.w, stage)

\* a variant of Continue in which _list_legacy_alerts lets the failure of its
\* request propagate
Continue_LegacyFailurePropagates(w, op, c, stage, r) ==
    CASE op = "get_health" /\ stage = 1 ->
            IF r.ok THEN StartGet(w, op, c, 2) ELSE Done(w, r)
      [] op = "get_health" /\ stage = 2 ->
            Done(w, Ok(IF r.ok THEN "health+version" ELSE "health+unknown"))
      [] op = "list_alerts" /\ stage = 1 ->
            IF r.ok THEN Done(w, Ok("unified_alerts")) ELSE StartGet(w, op, c, 2)
      [] op = "list_alerts" /\ stage = 2 ->
            IF r.ok THEN Done(w, Ok("legacy_alerts")) ELSE Done(w, r)
      [] OTHER ->
            IF r.ok THEN Done(w, Ok("folders")) ELSE Done(w, r)

\* a variant of Continue in which list_folders turns a failed request into an
\* empty list
Continue_FoldersAbsorbFailure(w, op, c, stage, r) ==
    CASE op = "get_health" /\ stage = 1 ->
            IF r.ok THEN StartGet(w, op, c, 2) ELSE Done(w, r)
      [] op = "get_health" /\ stage = 2 ->
            Done(w, Ok(IF r.ok THEN "health+version" ELSE "health+unknown"))
      [] op = "list_alerts" /\ stage = 1 ->
            IF r.ok THEN Done(w, Ok("unified_alerts")) ELSE StartGet(w, op, c, 2)
      [] op = "list_alerts" /\ stage = 2 ->
            Done(w, Ok(IF r.ok THEN "legacy_alerts" ELSE "empty_list"))
      [] OTHER ->
            Done(w, Ok(IF r.ok THEN "folders" ELSE "empty_list"))

\* the stage-th _get of op returned or raised r: the rest of the method, up to
\* its next await or its end
Continue(w, op, c, stage, r) ==
    CASE op = "get_health" /\ stage = 1 ->
            IF r.ok THEN StartGet(w, op, c, 2) ELSE Done(w, r)
      [] op = "get_health" /\ stage = 2 ->
            Done(w, Ok(IF r.ok THEN "health+version" ELSE "health+unknown"))
      [] op = "list_alerts" /\ stage = 1 ->
            IF r.ok THEN Done(w, Ok("unified_alerts")) ELSE StartGet(w, op, c, 2)
      [] op = "list_alerts" /\ stage = 2 ->
            Done(w, Ok(IF r.ok THEN "legacy_alerts" ELSE "empty_list"))
      [] OTHER ->
            IF r.ok THEN Done(w, Ok("folders")) ELSE Done(w, r)

-----------------------------------------------------------------------------
(* ConfigParser and ReadOnlyGrafanaServer._load_connections *)

\* s.isalnum(): at least one character, and every character a letter or a
\* digit of any script; "U+00E9" stands for the one character e with acute
\* accent, a letter outside ASCII
isalnum(s) ==
    /\ s # <<>>
    /\ \A i \in 1..Len(s) :
          \/ InSeq(s[i], LowerCase) \/ InSeq(s[i], UpperCase) \/ InSeq(s[i], Digits)
          \/ s[i] = "U+00E9"

\* GrafanaConnection.validate_connection_name: TRUE when the name is returned,
\* FALSE when ValueError is raised; v.replace('_', '').replace('-', '') is v
\* without its underscores and hyphens
validate_connection_name(v) == isalnum(SelectSeq(v, LAMBDA x : x \notin {"_", "-"}))

\* ConfigParser._process_connection: raised is the ValidationError of a name
\* that validate_connection_name refuses, which GrafanaConnection(**conn_data)
\* raises first, or the ValueError of a missing token
_process_connection(env, conn_data) ==
    LET env1 == SetEnv(env, dotenv_values(envFile), FALSE)
        name == conn_data.connection_name
        session_token == getenv(env1, get_env_var_name(name))
        timeout_override == getenv(env1, timeout_env_var(name))
        timeout == IF timeout_override # NoVal /\ timeout_override # <<>>
                      /\ ParseInt(timeout_override) >= 0
                   THEN ParseInt(timeout_override)
                   ELSE conn_data.timeout
    IN  [environ |-> env1,
         raised |-> \/ ~validate_connection_name(name)
                    \/ session_token = NoVal \/ session_token = <<>>,
         connection |-> [connection_name |-> name, url |-> conn_data.url,
                         description |-> conn_data.description, timeout |-> timeout,
                         verify_ssl |-> conn_data.verify_ssl,
                         session_token |-> session_token]]

\* ConfigParser.load_config from the i-th descriptor on: the first connection
\* without a token raises and ends the load
RECURSIVE load_config(_, _, _)
load_config(env, i, loaded) ==
    IF i > Len(Config) THEN [environ |-> env, raised |-> FALSE, connections |-> loaded]
    ELSE LET p == _process_connection(env, Config[i])
         IN  IF p.raised
             THEN [environ |-> p.environ, raised |-> TRUE, connections |-> <<>>,
                   name |-> Config[i].connection_name]
             ELSE load_config(p.environ, i + 1, Append(loaded, p.connection))

\* GrafanaConnector.__init__: the client is built from the record
NewConnector(connection) ==
    [base_url |-> connection.url, cookie |-> connection.session_token,
     timeout |-> connection.timeout, verify |-> connection.verify_ssl, closed |-> FALSE]

\* ReadOnlyGrafanaServer.cleanup: connector.close() closes the HTTP client of
\* every connector
cleanup(conns) == [n \in DOMAIN conns |-> [conns[n] EXCEPT !.closed = TRUE]]

EmptyMap == [n \in {} |-> NoVal]
IdleTask == [pc |-> "idle", op |-> "", conn |-> <<>>, stage |-> 0]
Tasks == 1..NumTasks

Event(act, t, op, c, result, log) ==
    [act |-> act, task |-> t, op |-> op, conn |-> c, result |-> result, log |-> log]
\* no step is running: control is in the event loop
Quiet == Event("idle", 0, "", <<>>, NoResult, <<>>)

\* ReadOnlyGrafanaServer._load_connections: every connector is created after
\* the whole configuration loaded, none when it raised
LoadConnections ==
    /\ phase = "start"
    /\ ev = Quiet
    /\ \E r \in {load_config(environ, 1, <<>>)} :
           /\ environ' = r.environ
           /\ IF r.raised
              THEN /\ phase' = "failed"
                   /\ ev' = Event("load", 0, "", r.name,
                                  IF ~validate_connection_name(r.name) THEN Err(InvalidName(r.name))
                                  ELSE Err(MissingCredential(r.name)), <<>>)
                   /\ UNCHANGED <<connections, connectors>>
              ELSE /\ phase' = "running"
                   /\ connections' =
                        [n \in {r.connections[i].connection_name : i \in 1..Len(r.connections)} |->
                            LET i == CHOOSE k \in 1..Len(r.connections) :
                                        r.connections[k].connection_name = n
                            IN  r.connections[i]]
                   /\ connectors' =
                        [n \in {r.connections[i].connection_name : i \in 1..Len(r.connections)} |->
                            LET i == CHOOSE k \in 1..Len(r.connections) :
                                        r.connections[k].connection_name = n
                            IN  NewConnector(r.connections[i])]
                   /\ ev' = Event("load", 0, "", <<>>, Ok("loaded"), <<>>)
    /\ UNCHANGED <<envFile, fileWritable, tasks, interrupted, rotated, sent, edits>>

-----------------------------------------------------------------------------
(* The tool handlers of server.py and the replies of the Grafana server *)

\* ', '.join(self.connectors.keys()): the configured names in insertion order
AvailableConnections ==
    LET idx == {i \in 1..Len(Config) : Config[i].connection_name \in DOMAIN connectors}
    IN  [i \in 1..Cardinality(idx) |->
            Config[CHOOSE k \in idx : Cardinality({j \in idx : j <= k}) = i].connection_name]

HttpCount(log) == Cardinality({i \in 1..Len(log) : log[i].kind = "http"})

\* the variables take the values a handler step computed
Commit(k, act, t, op, c) ==
    /\ sent + HttpCount(k.w.log) <= MaxRequests
    /\ environ' = k.w.environ
    /\ envFile' = k.w.envFile
    /\ connections' = k.w.connections
    /\ connectors' = k.w.connectors
    /\ interrupted' = k.w.interrupted
    /\ rotated' = k.w.rotated
    /\ sent' = sent + HttpCount(k.w.log)
    /\ tasks' = [tasks EXCEPT ![t] = IF k.pc = "await"
                                     THEN [pc |-> "await", op |-> op, conn |-> c,
                                           stage |-> k.stage]
                                     ELSE IdleTask]
    /\ ev' = Event(act, t, op, c, k.result, k.w.log)
    /\ UNCHANGED <<phase, fileWritable, edits>>

\* a variant of list_connections that copies the whole record, token included
list_connections_WholeRecord(conns) ==
    LET names == SelectSeq([i \in 1..Len(Config) |-> Config[i].connection_name],
                           LAMBDA n : n \in DOMAIN conns)
    IN  [i \in 1..Len(names) |->
            [name |-> names[i], url |-> conns[names[i]].url,
             description |-> conns[names[i]].description,
             timeout |-> conns[names[i]].timeout,
             verify_ssl |-> conns[names[i]].verify_ssl,
             session_token |-> conns[names[i]].session_token]]

\* the list_connections tool: one entry per record of self.connections, in
\* insertion order, built from five of its fields
list_connections(conns) ==
    LET names == SelectSeq([i \in 1..Len(Config) |-> Config[i].connection_name],
                           LAMBDA n : n \in DOMAIN conns)
    IN  [i \in 1..Len(names) |->
            [name |-> names[i], url |-> conns[names[i]].url,
             description |-> conns[names[i]].description,
             timeout |-> conns[names[i]].timeout,
             verify_ssl |-> conns[names[i]].verify_ssl]]

\* list_connections is called: it awaits nothing and touches no connector
ListConnections ==
    /\ phase = "running"
    /\ ev = Quiet
    /\ ev' = Event("list_connections", 0, "list_connections", <<>>,
                   IF DOMAIN connections = {} THEN Ok("No connections configured")
                   ELSE Ok("connections"),
                   <<[kind |-> "listing", entries |-> list_connections(connections)]>>)
    /\ UNCHANGED <<phase, environ, envFile, fileWritable, connections, connectors, tasks,
                   interrupted, rotated, sent, edits>>

\* a variant of Dispatch that refreshes the environment from .env before it
\* looks the connection name up
Dispatch_ReadsFirst(t, op, connection_name) ==
    /\ phase = "running"
    /\ ev = Quiet
    /\ tasks[t].pc = "idle"
    /\ \A u \in Tasks : u < t => tasks[u].pc # "idle"
    /\ \E w \in {load_dotenv(World, TRUE)} :
          IF connection_name \notin DOMAIN connectors
          THEN /\ ev' = Event("dispatch", t, op, connection_name,
                              Err(UnknownConnection(connection_name, AvailableConnections)),
                              w.log)
               /\ environ' = w.environ
               /\ UNCHANGED <<phase, envFile, fileWritable, connections, connectors,
                              tasks, interrupted, rotated, sent, edits>>
          ELSE \E k \in {StartGet(w, op, connection_name, 1)} :
                  Commit(k, "dispatch", t, op, connection_name)

\* a tool handler is called: the connection name is looked up first, then the
\* connector method runs to its first await
Dispatch(t, op, connection_name) ==
    /\ phase = "running"
    /\ ev = Quiet
    /\ tasks[t].pc = "idle"
    /\ \A u \in Tasks : u < t => tasks[u].pc # "idle"
    /\ IF connection_name \notin DOMAIN connectors
       THEN /\ ev' = Event("dispatch", t, op, connection_name,
                           Err(UnknownConnection(connection_name, AvailableConnections)), <<>>)
            /\ UNCHANGED <<phase, environ, envFile, fileWritable, connections, connectors,
                           tasks, interrupted, rotated, sent, edits>>
       ELSE \E k \in {StartGet(World, op, connection_name, 1)} :
               Commit(k, "dispatch", t, op, connection_name)

\* the Set-Cookie headers a reply may carry, with the session token the server
\* means by them (NoVal: none)
PathAttr == <<";", " ", "P", "a", "t", "h", "=", "/">>
SetCookie(name, value) == name \o <<"=">> \o value \o PathAttr
SetCookieChoices ==
    { [headers |-> <<>>, session |-> NoVal],
      [headers |-> <<SetCookie(COOKIE_NAME, <<"n">>)>>, session |-> <<"n">>],
      [headers |-> <<SetCookie(COOKIE_NAME, <<>>)>>, session |-> <<>>],
      [headers |-> <<SetCookie(<<"o", "t", "h", "e", "r">>, <<"v">>),
                     SetCookie(COOKIE_NAME \o <<"_", "e", "x", "p", "i", "r", "y">>, <<"1">>)>>,
       session |-> NoVal] }

Statuses == {200, 401, 403, 500}

\* what the transport delivers for one request
Outcomes ==
    { [kind |-> "response", status |-> p[1], headers |-> p[2].headers,
       session |-> p[2].session, text |-> "body", cause |-> ""] :
         p \in {q \in Statuses \X SetCookieChoices :
                   q[1] = 200 \/ q[2].session \in {NoVal, <<"n">>}} }
    \cup { [kind |-> "timeout", status |-> 0, headers |-> <<>>, session |-> NoVal,
            text |-> "", cause |-> "ReadTimeout"],
           [kind |-> "transport", status |-> 0, headers |-> <<>>, session |-> NoVal,
            text |-> "", cause |-> "ConnectError"] }

\* the awaited client.get of task t completes: _get classifies the outcome and
\* the connector method runs to its next await or its end
Respond(t, outcome) ==
    /\ phase = "running"
    /\ ev = Quiet
    /\ tasks[t].pc = "await"
    /\ \E r \in {_get_receive(World, tasks[t].conn, outcome)} :
          \E k \in {Continue(r.w, tasks[t].op, tasks[t].conn, tasks[t].stage, r.result)} :
             Commit(k, "respond", t, tasks[t].op, tasks[t].conn)

\* another process, or a person, replaces the value of a connection's line in .env
ExternalToken == <<"x">>
ExternalEdit(c) ==
    /\ phase = "running"
    /\ ev = Quiet
    /\ edits < MaxEdits
    /\ envFile # NoFile
    /\ LET lines == splitlines(envFile)
           key == get_env_var_name(c) \o <<"=">>
           hits == {i \in 1..Len(lines) : StartsWith(lines[i], key)}
       IN  /\ hits # {}
           /\ envFile' = Join([i \in 1..Len(lines) |->
                                  IF i \in hits THEN key \o ExternalToken ELSE lines[i]],
                              <<"\n">>) \o <<"\n">>
    /\ edits' = edits + 1
    /\ rotated' = [rotated EXCEPT ![c] = NoVal]
    /\ ev' = Event("edit", 0, "", c, NoResult, <<>>)
    /\ UNCHANGED <<phase, environ, fileWritable, connections, connectors, tasks,
                   interrupted, sent>>

\* the running coroutine has suspended at its await or has returned: control
\* is back in the event loop, which runs the next ready step
Yield ==
    /\ ev # Quiet
    /\ ev' = Quiet
    /\ UNCHANGED <<phase, environ, envFile, fileWritable, connections, connectors, tasks,
                   interrupted, rotated, sent, edits>>

-----------------------------------------------------------------------------
(* The states the process starts in *)

Line(name, value) == name \o <<"=">> \o value \o <<"\n">>
NoEnv == [v \in EnvVars |-> NoVal]
VarA == get_env_var_name(Config[1].connection_name)
VarB == get_env_var_name(Config[2].connection_name)

\* the credential source at start: the process environment, .env and whether
\* .env can be written
Startups ==
    { \* both tokens in .env
      [environ |-> NoEnv, writable |-> TRUE,
       file |-> Line(VarA, <<"s">>) \o Line(VarB, <<"s">>)],
      \* the same, .env read-only
      [environ |-> NoEnv, writable |-> FALSE,
       file |-> Line(VarA, <<"s">>) \o Line(VarB, <<"s">>)],
      \* no .env: both tokens in the process environment
      [environ |-> [NoEnv EXCEPT ![VarA] = <<"e">>, ![VarB] = <<"e">>], writable |-> TRUE,
       file |-> NoFile],
      \* .env holds the first connection's token and its timeout override, the
      \* process environment holds both tokens
      [environ |-> [NoEnv EXCEPT ![VarA] = <<"e">>, ![VarB] = <<"e">>], writable |-> TRUE,
       file |-> Line(timeout_env_var(Config[1].connection_name), <<"4", "5">>)
                \o Line(VarA, <<"s">>)],
      \* the second connection has no token anywhere
      [environ |-> NoEnv, writable |-> TRUE, file |-> Line(VarA, <<"s">>)],
      \* the first connection's token is empty
      [environ |-> NoEnv, writable |-> TRUE,
       file |-> Line(VarA, <<>>) \o Line(VarB, <<"s">>)] }

Init ==
    /\ phase = "start"
    /\ \E s \in Startups :
          /\ environ = s.environ
          /\ envFile = s.file
          /\ fileWritable = s.writable
    /\ connections = EmptyMap
    /\ connectors = EmptyMap
    /\ tasks = [t \in Tasks |-> IdleTask]
    /\ interrupted = {}
    /\ rotated = [n \in ConfigNames |-> NoVal]
    /\ sent = 0
    /\ edits = 0
    /\ ev = Quiet

Next ==
    \/ LoadConnections
    \/ \E t \in Tasks, op \in Ops, n \in ConfigNames \cup {UnknownName} : Dispatch(t, op, n)
    \/ \E t \in Tasks, o \in Outcomes : Respond(t, o)
    \/ \E c \in ConfigNames : ExternalEdit(c)
    \/ ListConnections
    \/ Yield

Spec == Init /\ [][Next]_vars

-----------------------------------------------------------------------------
(* The credential file on its own: update_session_token and the rotation    *)
(* check called directly on connections, as tests/test_cookie_refresh.py    *)
(* does, over .env files of several shapes.                                 *)

\* two names that validate_connection_name accepts
StoreNames == {<<"b", "-", "c">>, <<"b", "_", "c">>}
StoreTokens == {<<"n">>, <<"m">>}
OtherLine == <<"O", "=", "1">>

StoreFiles ==
    { \* the connection's line alone
      Line(VarB, <<"s">>),
      \* no newline after the last line
      OtherLine \o <<"\n">> \o VarB \o <<"=", "s">>,
      \* lines ending in \r\n
      VarB \o <<"=", "s", "\r", "\n">> \o OtherLine \o <<"\r", "\n">>,
      \* a comment, an empty line and the key twice
      <<"#", "c", "\n", "\n">> \o Line(VarB, <<"s">>) \o Line(VarB, <<"t">>),
      \* no line for the connection
      OtherLine \o <<"\n">>,
      NoFile }

StoreConnection(n) ==
    [connection_name |-> n, url |-> "https://grafana.example.com", description |-> "",
     timeout |-> DefaultTimeout, verify_ssl |-> TRUE, session_token |-> <<"s">>]

InitStore ==
    /\ phase = "running"
    /\ environ = NoEnv
    /\ envFile \in StoreFiles
    /\ fileWritable \in BOOLEAN
    /\ connections = [n \in StoreNames |-> StoreConnection(n)]
    /\ connectors = [n \in StoreNames |-> NewConnector(StoreConnection(n))]
    /\ tasks = [t \in Tasks |-> IdleTask]
    /\ interrupted = {}
    /\ rotated = [n \in StoreNames |-> NoVal]
    /\ sent = 0
    /\ edits = 0
    /\ ev = Quiet

\* the variables take the values a direct call computed
CommitCall(k, act, c, new_token) ==
    /\ environ' = k.w.environ
    /\ envFile' = k.w.envFile
    /\ connections' = k.w.connections
    /\ connectors' = k.w.connectors
    /\ interrupted' = k.w.interrupted
    /\ rotated' = k.w.rotated
    /\ ev' = Event(act, 0, act, c,
                   IF k.raised THEN Err(TransportError("OSError")) ELSE Ok(""),
                   <<[kind |-> "call", conn |-> c, token |-> new_token,
                      stored |-> StoreValue(envFile, get_env_var_name(c))]>> \o k.w.log)
    /\ UNCHANGED <<phase, fileWritable, tasks, sent, edits>>

\* connection.update_session_token(new_token) is called
UpdateToken(c, new_token) ==
    \E k \in {update_session_token(World, c, new_token, TRUE)} :
        CommitCall(k, "update_session_token", c, new_token)

\* connector._check_and_update_session_cookie(response) is called with a
\* response carrying grafana_session=new_token
CheckCookie(c, new_token) ==
    \E k \in {_check_and_update_session_cookie(
                  World, c, [headers |-> <<SetCookie(COOKIE_NAME, new_token)>>])} :
        CommitCall(k, "check_cookie", c, new_token)

NextStore ==
    \/ \E c \in StoreNames, tk \in StoreTokens : UpdateToken(c, tk)
    \/ \E c \in StoreNames, tk \in StoreTokens : CheckCookie(c, tk)

SpecStore == InitStore /\ [][NextStore]_vars

-----------------------------------------------------------------------------
(* The rotation check on its own: _check_and_update_session_cookie called    *)
(* on responses that carry one or several Set-Cookie headers, as             *)
(* tests/test_cookie_refresh.py does.                                        *)

\* the longest list of Set-Cookie headers a response carries here
MaxHeaders == 2

\* the value of tests/test_cookie_refresh.py::test_parse_url_encoded_cookie
EncodedValue == <<"a","b","c","%","2","B","1","2","3","%","3","D","t","e","s","t">>
DecodedValue == <<"a","b","c","+","1","2","3","=","t","e","s","t">>

\* Set-Cookie headers a Grafana server or a proxy in front of it sends
CookieHeaders ==
    { SetCookie(COOKIE_NAME, <<"n">>),
      SetCookie(COOKIE_NAME, <<"m">>),
      SetCookie(COOKIE_NAME, <<"s">>),
      SetCookie(COOKIE_NAME, EncodedValue),
      SetCookie(COOKIE_NAME \o <<"_", "e", "x", "p", "i", "r", "y">>, <<"1">>),
      SetCookie(<<"x", "_">> \o COOKIE_NAME, <<"q">>),
      SetCookie(<<"o", "t", "h", "e", "r">>, <<"v">>),
      SetCookie(<<"r", "e", "f">>, COOKIE_NAME \o <<"=", "q">>) }


CookieConnection(token) ==
    [connection_name |-> Config[1].connection_name, url |-> Config[1].url,
     description |-> Config[1].description, timeout |-> Config[1].timeout,
     verify_ssl |-> Config[1].verify_ssl, session_token |-> token]

\* one connection whose token is in .env (writable or not) or only in os.environ
InitCookie ==
    /\ phase = "running"
    /\ \E token \in {<<"s">>, DecodedValue} :
          /\ \/ envFile = Line(VarA, token) /\ fileWritable \in BOOLEAN /\ environ = NoEnv
             \/ envFile = NoFile /\ fileWritable = TRUE
                   /\ environ = [NoEnv EXCEPT ![VarA] = token]
          /\ connections = [n \in {Config[1].connection_name} |-> CookieConnection(token)]
          /\ connectors = [n \in {Config[1].connection_name} |->
                              NewConnector(CookieConnection(token))]
    /\ tasks = [t \in Tasks |-> IdleTask]
    /\ interrupted = {}
    /\ rotated = [n \in ConfigNames |-> NoVal]
    /\ sent = 0
    /\ edits = 0
    /\ ev = Quiet

\* connector._check_and_update_session_cookie(response) is called with a
\* response whose Set-Cookie headers are headers
CheckResponse(c, headers) ==
    /\ ev = Quiet
    /\ c \in DOMAIN connectors
    /\ \E k \in {_check_and_update_session_cookie(World, c, [headers |-> headers])} :
        /\ environ' = k.w.environ
        /\ envFile' = k.w.envFile
        /\ connections' = k.w.connections
        /\ connectors' = k.w.connectors
        /\ interrupted' = k.w.interrupted
        /\ rotated' = k.w.rotated
        /\ ev' = Event("check_response", 0, "check_response", c,
                       IF k.raised THEN Err(TransportError("OSError")) ELSE Ok(""),
                       <<[kind |-> "call", conn |-> c, headers |-> headers]>> \o k.w.log)
        /\ UNCHANGED <<phase, fileWritable, tasks, sent, edits>>

NextCookie ==
    \E c \in ConfigNames, k \in 1..MaxHeaders :
       \E headers \in [1..k -> CookieHeaders] : CheckResponse(c, headers)

SpecCookie == InitCookie /\ [][NextCookie]_vars

-----------------------------------------------------------------------------
(* Connection names: a configuration of one connection whose name is any     *)
(* short string, loaded and then used for a request.                         *)

\* the longest connection name tried
MaxNameLen == 2

\* letters, a digit, the two separators, and characters that are neither
Names ==
    UNION {[1..k -> {"a", "Z", "7", "_", "-", " ", "@", "U+00E9"}] : k \in 0..MaxNameLen}

\* the process environment holds a token for every name; there is no .env
InitNames ==
    /\ phase = "start"
    /\ environ = [v \in {get_env_var_name(n) : n \in Names} |-> <<"s">>]
    /\ envFile = NoFile
    /\ fileWritable = TRUE
    /\ connections = EmptyMap
    /\ connectors = EmptyMap
    /\ tasks = [t \in Tasks |-> IdleTask]
    /\ interrupted = {}
    /\ rotated = [n \in Names |-> NoVal]
    /\ sent = 0
    /\ edits = 0
    /\ ev = Quiet

\* _load_connections on a connections.yaml with the one connection name
LoadNamed(name) ==
    /\ phase = "start"
    /\ ev = Quiet
    /\ \E p \in {_process_connection(
                    environ, [connection_name |-> name, url |-> "https://example.com",
                              description |-> "", timeout |-> DefaultTimeout,
                              verify_ssl |-> TRUE])} :
          /\ environ' = p.environ
          /\ IF p.raised
             THEN /\ phase' = "failed"
                  /\ ev' = Event("load", 0, "", name,
                                 IF ~validate_connection_name(name) THEN Err(InvalidName(name))
                                 ELSE Err(MissingCredential(name)), <<>>)
                  /\ UNCHANGED <<connections, connectors>>
             ELSE /\ phase' = "running"
                  /\ connections' = [n \in {name} |-> p.connection]
                  /\ connectors' = [n \in {name} |-> NewConnector(p.connection)]
                  /\ ev' = Event("load", 0, "", name, Ok("loaded"), <<>>)
    /\ UNCHANGED <<envFile, fileWritable, tasks, interrupted, rotated, sent, edits>>

NextNames ==
    \/ \E name \in Names : LoadNamed(name)
    \/ \E t \in Tasks, n \in DOMAIN connectors : Dispatch(t, "list_folders", n)
    \/ Yield

SpecNames == InitNames /\ [][NextNames]_vars

-----------------------------------------------------------------------------
(* Operations whose result depends on their arguments and on the JSON the    *)
(* Grafana server returns: one connection, tool calls with arguments, and    *)
(* replies with bodies.                                                      *)

\* d.get(key, default) on a JSON object
Get(d, key, default) == IF key \in DOMAIN d THEN d[key] ELSE default
\* the smallest member of a non-empty set of positions
First(positions) == CHOOSE i \in positions : \A j \in positions : i <= j

\* a variant of get_dashboard_panel that returns an empty object when no panel
\* has the id
get_dashboard_panel_ReturnsEmpty(w, dashboard_uid, panel_id, r) ==
    IF ~r.ok THEN Done(w, r)
    ELSE LET dashboard == Get(r.value, "dashboard", EmptyMap)
             panels == Get(dashboard, "panels", <<>>)
             hits == {i \in 1..Len(panels) :
                         "id" \in DOMAIN panels[i] /\ panels[i].id = panel_id}
         IN  IF hits # {} THEN Done(w, Ok(panels[First(hits)]))
             ELSE Done(w, Ok(EmptyMap))

\* GrafanaConnector.get_dashboard_panel from the return of its _get on: the
\* first panel of dashboard.panels whose id is panel_id, or the exception
get_dashboard_panel(w, dashboard_uid, panel_id, r) ==
    IF ~r.ok THEN Done(w, r)
    ELSE LET dashboard == Get(r.value, "dashboard", EmptyMap)
             panels == Get(dashboard, "panels", <<>>)
             hits == {i \in 1..Len(panels) :
                         "id" \in DOMAIN panels[i] /\ panels[i].id = panel_id}
         IN  IF hits # {} THEN Done(w, Ok(panels[First(hits)]))
             ELSE Done(w, Err(NotFound(panel_id, dashboard_uid)))

\* the request primitive for the query-execution request: the token is read and
\* the cookie set as for a GET, then the JSON body is posted
_post_send(w, c, endpoint, payload) ==
    LET r == reload_session_token(w, c)
    IN  IF r.raised THEN [w |-> r.w, raised |-> TRUE]
        ELSE LET w1 == [r.w EXCEPT !.connectors[c].cookie = r.token,
                                   !.interrupted = @ \ {c}]
             IN  [w |-> Logged(w1, [kind |-> "http", conn |-> c, method |-> "POST",
                                    base_url |-> w1.connectors[c].base_url,
                                    path |-> "/api" \o endpoint,
                                    cookie |-> w1.connectors[c].cookie,
                                    timeout |-> w1.connectors[c].timeout,
                                    verify |-> w1.connectors[c].verify,
                                    json |-> payload]),
                  raised |-> FALSE]

\* the top-level keys of the request body that explore_query sets itself
ReservedKeys == {"queries", "from", "to", "maxDataPoints", "intervalMs"}

\* a variant of explore_query that builds and sends the request before it
\* looks at the additional options
explore_query_SendsFirst(w, c, call) ==
    LET payload == call.additional_options @@
                   [queries |-> call.queries, from |-> call.range_from, to |-> call.range_to,
                    maxDataPoints |-> call.max_data_points, intervalMs |-> call.interval_ms]
        b == _post_send(w, c, "/ds/query", payload)
    IN  IF b.raised THEN Done(b.w, Err(MissingCredential(c)))
        ELSE IF DOMAIN call.additional_options \cap ReservedKeys # {}
        THEN Done(b.w, Err(InvalidArgument(DOMAIN call.additional_options \cap ReservedKeys)))
        ELSE Awaiting(b.w, 1)

\* explore_query up to its await: additional options that collide with a
\* reserved key are refused, otherwise the body is assembled and posted
explore_query(w, c, call) ==
    IF DOMAIN call.additional_options \cap ReservedKeys # {}
    THEN Done(w, Err(InvalidArgument(DOMAIN call.additional_options \cap ReservedKeys)))
    ELSE LET payload == call.additional_options @@
                        [queries |-> call.queries, from |-> call.range_from,
                         to |-> call.range_to, maxDataPoints |-> call.max_data_points,
                         intervalMs |-> call.interval_ms]
             b == _post_send(w, c, "/ds/query", payload)
         IN  IF b.raised THEN Done(b.w, Err(MissingCredential(c)))
             ELSE Awaiting(b.w, 1)

\* the concatenation of a list of lists
RECURSIVE Concat(_)
Concat(lists) == IF lists = <<>> THEN <<>> ELSE Head(lists) \o Concat(Tail(lists))

\* the truth value of an optional string: None and '' are false
Truthy(v) == v # NoVal /\ v # <<>>

\* the entry list_alerts builds for one rule of one group of one namespace
FormatRule(rule, namespace, group) ==
    LET grafana_alert == Get(rule, "grafana_alert", EmptyMap)
    IN  [uid |-> Get(grafana_alert, "uid", NoVal),
         title |-> Get(grafana_alert, "title", NoVal),
         condition |-> Get(grafana_alert, "condition", NoVal),
         data |-> Get(grafana_alert, "data", NoVal),
         no_data_state |-> Get(grafana_alert, "noDataState", NoVal),
         exec_err_state |-> Get(grafana_alert, "execErrState", NoVal),
         folder |-> namespace,
         evaluation_group |-> Get(group, "name", NoVal),
         evaluation_interval |-> Get(group, "interval", NoVal)]

\* the loops of list_alerts over rules.items(), the groups of a namespace and
\* the rules of a group; rules is the JSON object as the list of its items
FormatRules(rules, folder_uid) ==
    Concat([n \in 1..Len(rules) |->
              IF Truthy(folder_uid) /\ ~StartsWith(rules[n].namespace, folder_uid)
              THEN <<>>
              ELSE Concat([g \in 1..Len(rules[n].groups) |->
                             LET group == rules[n].groups[g]
                                 rs == Get(group, "rules", <<>>)
                             IN  [i \in 1..Len(rs) |->
                                     FormatRule(rs[i], rules[n].namespace, group)]])])

\* GrafanaConnector._list_legacy_alerts from the return of its _get on
_list_legacy_alerts(w, r) ==
    IF ~r.ok THEN Done(w, Ok(<<>>))
    ELSE Done(w, Ok([i \in 1..Len(r.value) |->
                       LET alert == r.value[i]
                       IN  [id |-> Get(alert, "id", NoVal),
                            dashboard_id |-> Get(alert, "dashboardId", NoVal),
                            panel_id |-> Get(alert, "panelId", NoVal),
                            name |-> Get(alert, "name", NoVal),
                            state |-> Get(alert, "state", NoVal),
                            new_state_date |-> Get(alert, "newStateDate", NoVal),
                            eval_data |-> Get(alert, "evalData", NoVal),
                            dashboard_uid |-> Get(alert, "dashboardUid", NoVal),
                            dashboard_slug |-> Get(alert, "dashboardSlug", NoVal),
                            dashboard_title |-> Get(alert, "dashboardTitle", NoVal),
                            panel_title |-> Get(alert, "panelTitle", NoVal)]
                    ]))

\* the path of the stage-th _get of a call
CallEndpoint(call, stage) ==
    CASE call.name = "get_dashboard_panel" -> "/dashboards/uid/" \o call.dashboard_uid
      [] OTHER -> Endpoint(call.name, stage)

RECURSIVE StartCall(_, _, _, _)
RECURSIVE ContinueCall(_, _, _, _, _)

\* the stage-th _get of a call is made: it suspends at its await, or raises
StartCall(w, call, c, stage) ==
    IF call.name = "explore_query" THEN explore_query(w, c, call)
    ELSE LET b == _get_send(w, c, CallEndpoint(call, stage))
         IN  IF b.raised THEN ContinueCall(b.w, call, c, stage, Err(MissingCredential(c)))
             ELSE Awaiting(b.w, stage)

\* the stage-th _get of a call returned or raised r: the rest of the method
ContinueCall(w, call, c, stage, r) ==
    CASE call.name = "get_dashboard_panel" ->
            get_dashboard_panel(w, call.dashboard_uid, call.panel_id, r)
      [] call.name = "explore_query" -> Done(w, r)
      \* list_alerts: the rules are formatted, or the legacy endpoint is asked
      [] call.name = "list_alerts" /\ stage = 1 ->
            IF r.ok THEN Done(w, Ok(FormatRules(r.value, call.folder_uid)))
            ELSE StartCall(w, call, c, 2)
      [] call.name = "list_alerts" /\ stage = 2 -> _list_legacy_alerts(w, r)
      \* no other method is called here
      [] OTHER -> Done(w, r)

\* the panels of the dashboards of the Grafana server
Panel(id, title) == [id |-> id, title |-> title, type |-> "graph"]
DashboardBodies ==
    << [dashboard |-> [uid |-> "d1", panels |-> <<Panel(1, "p1"), Panel(2, "p2")>>]],
       \* two panels with the same id
       [dashboard |-> [uid |-> "d1", panels |-> <<Panel(2, "p2"), Panel(2, "again")>>]],
       \* a panel without an id before the others
       [dashboard |-> [uid |-> "d1",
                       panels |-> <<[title |-> "row"], Panel(3, "p3"), Panel(1, "p1")>>]],
       \* a dashboard without panels, and a reply without a dashboard
       [dashboard |-> [uid |-> "d1"]],
       [meta |-> [slug |-> "d1"]] >>

\* the alert rules of the Grafana server, by namespace (folder) and group
Rule(uid) ==
    [grafana_alert |-> [uid |-> uid, title |-> "t", condition |-> "C", data |-> <<>>,
                        noDataState |-> "NoData", execErrState |-> "Error"]]
Group(name, rules) == [name |-> name, interval |-> "1m", rules |-> rules]
RulesBodies ==
    << \* two folders, the uid of one a prefix of the other's
       << [namespace |-> <<"f">>, groups |-> <<Group("g1", <<Rule("r1")>>)>>],
          [namespace |-> <<"f", "1">>,
           groups |-> <<Group("g2", <<Rule("r2"), Rule("r3")>>), [name |-> "g3"]>>] >>,
       \* another folder only
       << [namespace |-> <<"h">>, groups |-> <<Group("g4", <<Rule("r4")>>)>>] >>,
       \* no rules at all
       << >> >>

\* the legacy alerts of the server, and the folder each dashboard is in
LegacyAlert(id, dashboardUid) ==
    [id |-> id, dashboardId |-> id, panelId |-> 1, name |-> "alert", state |-> "ok",
     newStateDate |-> "2024-01-01", evalData |-> "", dashboardUid |-> dashboardUid,
     dashboardSlug |-> "slug", dashboardTitle |-> "title", panelTitle |-> "panel"]
LegacyBodies ==
    << <<LegacyAlert(1, "d1"), LegacyAlert(2, "d2")>>, <<LegacyAlert(1, "d1")>>, << >> >>
DashboardFolder == [d \in {"d1", "d2"} |-> IF d = "d1" THEN <<"f">> ELSE <<"h">>]

\* the arguments the tools are called with
\* additional_options of explore_query: none, free keys, one reserved key alone
\* and one among free keys
AdditionalOptions ==
    {EmptyMap, [requestId |-> "1", timezone |-> "utc"]}
       \cup {[k \in {key} |-> "x"] : key \in ReservedKeys}
       \cup {[k \in {"requestId", key} |-> "x"] : key \in ReservedKeys}
Calls ==
    {[name |-> "get_dashboard_panel", dashboard_uid |-> "d1", panel_id |-> p] : p \in 1..2}
       \cup {[name |-> "explore_query",
               queries |-> <<[refId |-> "A", datasource |-> [uid |-> "prometheus_uid"],
                              expr |-> "up"]>>,
               range_from |-> "now-1h", range_to |-> "now", max_data_points |-> 500,
               interval_ms |-> 1000, additional_options |-> o] : o \in AdditionalOptions}
       \cup {[name |-> "list_alerts", folder_uid |-> f] : f \in {NoVal, <<"f">>, <<"h">>}}

Reply(status, body) ==
    [kind |-> "response", status |-> status, headers |-> <<>>, session |-> NoVal,
     text |-> body, cause |-> ""]
Failures ==
    << Reply(500, "Internal Server Error"), Reply(401, "Unauthorized"),
       [kind |-> "timeout", status |-> 0, headers |-> <<>>, session |-> NoVal,
        text |-> "", cause |-> "ReadTimeout"] >>

\* what the transport may deliver for the stage-th request of a call: a
\* failure, or a 2xx reply with one of the bodies the endpoint returns
CallOutcomes(call, stage) ==
    LET bodies == CASE call.name = "get_dashboard_panel" -> DashboardBodies
                    [] call.name = "explore_query" -> <<[results |-> [A |-> "frames"]]>>
                    [] call.name = "list_alerts" /\ stage = 1 -> RulesBodies
                    [] call.name = "list_alerts" /\ stage = 2 -> LegacyBodies
                    [] OTHER -> <<>>
    IN  Failures \o [i \in 1..Len(bodies) |-> Reply(200, bodies[i])]

\* one loaded connection whose token is in os.environ
InitData ==
    /\ phase = "running"
    /\ environ = [NoEnv EXCEPT ![VarA] = <<"s">>]
    /\ envFile = NoFile
    /\ fileWritable = TRUE
    /\ connections = [n \in {Config[1].connection_name} |-> CookieConnection(<<"s">>)]
    /\ connectors = [n \in {Config[1].connection_name} |->
                        NewConnector(CookieConnection(<<"s">>))]
    /\ tasks = [t \in Tasks |-> IdleTask]
    /\ interrupted = {}
    /\ rotated = [n \in ConfigNames |-> NoVal]
    /\ sent = 0
    /\ edits = 0
    /\ ev = Quiet

\* a tool handler is called with arguments: the connector method runs to its
\* first await
CallTool(t, call, connection_name) ==
    /\ phase = "running"
    /\ ev = Quiet
    /\ tasks[t].pc = "idle"
    /\ \A u \in Tasks : u < t => tasks[u].pc # "idle"
    /\ connection_name \in DOMAIN connectors
    /\ \E k \in {StartCall(World, call, connection_name, 1)} :
          Commit(k, "dispatch", t, call, connection_name)

\* the awaited request of task t completes with the i-th of its possible
\* outcomes and the method runs on
ReplyTo(t, i) ==
    /\ phase = "running"
    /\ ev = Quiet
    /\ tasks[t].pc = "await"
    /\ i <= Len(CallOutcomes(tasks[t].op, tasks[t].stage))
    /\ \E r \in {_get_receive(World, tasks[t].conn,
                               CallOutcomes(tasks[t].op, tasks[t].stage)[i])} :
          \E k \in {ContinueCall(r.w, tasks[t].op, tasks[t].conn, tasks[t].stage, r.result)} :
             Commit(k, "respond", t, tasks[t].op, tasks[t].conn)

NextData ==
    \/ \E t \in Tasks, call \in Calls, n \in ConfigNames : CallTool(t, call, n)
    \/ \E t \in Tasks, i \in 1..(Len(Failures) + Len(DashboardBodies)) : ReplyTo(t, i)
    \/ Yield

SpecData == InitData /\ [][NextData]_vars

-----------------------------------------------------------------------------
(* The life of the process: main() constructs the server, runs it and exits. *)

\* main after server.run(): the interrupt and the error are logged, the error
\* exits with status 1; nothing else runs before the process ends
Exit(how) ==
    /\ phase = "running"
    /\ ev = Quiet
    /\ phase' = "exited"
    /\ ev' = Event("exit", 0, how, <<>>,
                   IF how = "Exception" THEN Err(TransportError("Server error")) ELSE Ok(how),
                   <<>>)
    /\ UNCHANGED <<environ, envFile, fileWritable, connections, connectors, tasks,
                   interrupted, rotated, sent, edits>>

\* the ways server.run() ends: mcp.run() returns when its input closes, is
\* interrupted from the keyboard, or raises
NextMain ==
    \/ LoadConnections
    \/ \E n \in ConfigNames : Dispatch(1, "list_folders", n)
    \/ \E o \in Outcomes : Respond(1, o)
    \/ \E how \in {"return", "KeyboardInterrupt", "Exception"} : Exit(how)
    \/ Yield

SpecMain == Init /\ [][NextMain]_vars

-----------------------------------------------------------------------------
(* Reading the latest step *)

EvIdx(kind) == {i \in 1..Len(ev.log) : ev.log[i].kind = kind}
\* the HTTP requests the latest step sent
HttpSent == {ev.log[i] : i \in EvIdx("http")}
\* the latest step is the completion of a request: what arrived, and the
\* connection before and after _get dealt with it
Responded == ev.act = "respond"
Arrived == ev.log[CHOOSE i \in EvIdx("response") : TRUE]
Returned == ev.log[CHOOSE i \in EvIdx("returned") : TRUE]
\* the reply carries a grafana_session cookie whose value is not the current token
CarriesNewToken ==
    /\ Arrived.outcome.kind = "response"
    /\ Arrived.outcome.session # NoVal
    /\ Arrived.outcome.session # Arrived.before.token
\* the credential source has no token for c: neither .env nor os.environ
Unresolvable(c) ==
    getenv(SetEnv(environ, dotenv_values(envFile), TRUE), get_env_var_name(c)) \in {NoVal, <<>>}

-----------------------------------------------------------------------------
(* Claims *)

\* C1: once the server rotated the token of a connection (to a non-empty
\* value), every later request on that connection sends the most recently
\* rotated token as its grafana_session cookie, whatever the state of the
\* credential file.
C1_SendsLatestRotatedToken ==
    \A e \in HttpSent :
        rotated[e.conn] \notin {NoVal, <<>>} => e.cookie = rotated[e.conn]

\* C2: a 2xx response carrying grafana_session=NEW, NEW non-empty and not the
\* current token, leaves the in-memory token, the client cookie and the
\* persisted value of the connection's identifier all equal to NEW.
C2_RotationReachesTokenCookieAndStore ==
    (Responded /\ CarriesNewToken /\ Arrived.outcome.session # <<>>
        /\ IsSuccess(Arrived.outcome.status)) =>
        /\ Returned.after.token = Arrived.outcome.session
        /\ Returned.after.cookie = Arrived.outcome.session
        /\ Returned.after.store = Arrived.outcome.session

\* C3: a response whose grafana_session cookie equals the current in-memory
\* token, or that carries no grafana_session cookie, causes no credential-store
\* write and leaves the in-memory token, the cookie and the store as they were.
C3_UnchangedTokenIsNoOp ==
    (Responded /\ Arrived.outcome.kind = "response"
        /\ (Arrived.outcome.session = NoVal
              \/ Arrived.outcome.session = Arrived.before.token)) =>
        /\ EvIdx("store_write") = {} /\ EvIdx("store_write_failed") = {}
        /\ Returned.after = Arrived.before

C3_Witness ==
    /\ Responded /\ Arrived.outcome.kind = "response"
    /\ Arrived.outcome.status = 200
    /\ Arrived.outcome.session = <<"n">>
    /\ Arrived.before.token = <<"n">>
    /\ Arrived.before.store = <<"n">>

\* C4: in every state (each is a point where control can pass to
\* another task) the client's cookie equals the record's session_token.
C4_CookieAlwaysEqualsToken ==
    \A c \in DOMAIN connectors : connectors[c].cookie = connections[c].session_token

\* C5: two requests on the same connection are never both between their token
\* read and their rotation check.
C5_OneRequestInFlightPerConnection ==
    \A t, u \in Tasks :
        (t # u /\ tasks[t].pc = "await" /\ tasks[u].pc = "await") => tasks[t].conn # tasks[u].conn

\* C6: a rotated token carried by a response with a non-2xx status is applied
\* like one carried by a 2xx response: the in-memory token and the cookie
\* become the new token, and so does the stored value when .env has the entry.
C6_RotationAppliedOnEveryStatus ==
    (Responded /\ CarriesNewToken /\ ~IsSuccess(Arrived.outcome.status)) =>
        /\ Returned.after.token = Arrived.outcome.session
        /\ Returned.after.cookie = Arrived.outcome.session
        /\ Arrived.before.store # NoVal => Returned.after.store = Arrived.outcome.session

\* C7: every request is sent with the value the credential file binds to the
\* connection's identifier at that moment, an external change included, and
\* the in-memory token equals it: .env is re-read before every request and
\* overrides the process environment.
C7_RequestSendsStoredToken ==
    \A e \in HttpSent :
        LET v == StoreValue(envFile, get_env_var_name(e.conn))
        IN  v # NoVal => (e.cookie = v /\ connections[e.conn].session_token = v)

C7_Witness ==
    /\ edits > 0
    /\ \E e \in HttpSent :
          /\ e.cookie = ExternalToken
          /\ connections[e.conn].session_token = ExternalToken

\* C8: a handler called with a name that is not in the registry fails with the
\* unknown-connection error listing all configured names, and nothing is read,
\* written or sent before it fails.
C8_UnknownConnectionFailsFirst ==
    [][(ev'.act = "dispatch" /\ ev'.conn \notin DOMAIN connectors) =>
          /\ ev'.result = Err(UnknownConnection(ev'.conn,
                                 [i \in 1..Len(Config) |-> Config[i].connection_name]))
          /\ ev'.log = <<>>
          /\ UNCHANGED <<environ, envFile, connections, connectors, tasks, sent>>]_vars

C8_Witness ==
    /\ ev.act = "dispatch" /\ ev.conn = UnknownName
    /\ ev.result.error.kind = "UnknownConnection"
    /\ \E t \in Tasks : tasks[t].pc = "await"

\* C9: each failure of the request primitive is reported as its own class: 401
\* as authentication-expired and 403 as permission-denied, both naming the
\* connection; another non-2xx status as an upstream error with status and
\* body; a timeout as a timeout error with the configured timeout; a transport
\* failure as a transport error with its cause; and no class as another.
C9_FailureClasses ==
    Responded =>
        LET o == Arrived.outcome
            r == Returned.result
        IN  /\ (o.kind = "response" /\ o.status = 401) <=>
                  r = Err([kind |-> "AuthenticationExpired", exc |-> "Exception", name |-> ev.conn])
            /\ (o.kind = "response" /\ o.status = 403) <=>
                  r = Err([kind |-> "PermissionDenied", exc |-> "Exception", name |-> ev.conn])
            /\ (o.kind = "response" /\ o.status \notin (200..299) \cup {401, 403}) <=>
                  (~r.ok /\ r.error.kind = "UpstreamError")
            /\ (~r.ok /\ r.error.kind = "UpstreamError") =>
                  (r.error.status = o.status /\ r.error.body = o.text)
            /\ (o.kind = "timeout") <=> (~r.ok /\ r.error.kind = "RequestTimeout")
            /\ (o.kind = "timeout") => r.error.timeout = connectors[ev.conn].timeout
            /\ (o.kind = "transport") =>
                  r = Err([kind |-> "TransportError", exc |-> "Exception", cause |-> o.cause])
            /\ (~r.ok /\ r.error.kind = "TransportError") =>
                  (o.kind = "transport" \/ EvIdx("store_write_failed") # {})

C9_Witness ==
    /\ Responded /\ Arrived.outcome.kind = "timeout"
    /\ ev.conn = Config[2].connection_name
    /\ Returned.result.error.kind = "RequestTimeout"
    /\ Returned.result.error.timeout = 60

\* C10: when a connection's token is not resolvable, every
\* operation on it fails with the missing-credential error and sends nothing;
\* a load that finds a connection without a token creates no client.
C10_MissingCredentialFailsEveryOperation ==
    /\ (ev.act = "dispatch" /\ ev.conn \in DOMAIN connectors /\ Unresolvable(ev.conn)) =>
          (HttpSent = {} /\ ev.result = Err(MissingCredential(ev.conn)))
    /\ phase = "failed" => DOMAIN connectors = {}

\* what the step that just ended logged, read from the next-state value of ev
HttpOf(e) == {i \in 1..Len(e.log) : e.log[i].kind = "http"}
ReturnedOf(e) == e.log[CHOOSE i \in 1..Len(e.log) : e.log[i].kind = "returned"].result
\* Unresolvable for a given environment and file
NoTokenIn(env, file, c) ==
    getenv(SetEnv(env, dotenv_values(file), TRUE), get_env_var_name(c)) \in {NoVal, <<>>}

\* C11: list_alerts requests the unified rules endpoint first; when that call
\* succeeds its result is returned; when it fails, whatever the failure, the
\* legacy endpoint /api/alerts is requested exactly once and its result
\* returned; when the legacy call fails too the result is an empty list, not
\* an error.
C11_ListAlertsFallsBackThenEmpty ==
    [][(ev'.op = "list_alerts" /\ ev'.conn \in DOMAIN connectors) =>
          LET t == ev'.task
              http == HttpOf(ev')
          IN  IF ev'.act = "dispatch"
              THEN \/ /\ Cardinality(http) = 1
                      /\ \A i \in http : ev'.log[i].path = "/api/ruler/grafana/api/v1/rules"
                      /\ tasks'[t].pc = "await" /\ tasks'[t].stage = 1
                   \/ /\ http = {}
                      /\ NoTokenIn(environ', envFile', ev'.conn)
                      /\ ev'.result = Ok("empty_list")
              ELSE IF tasks[t].stage = 1
              THEN IF ReturnedOf(ev').ok
                   THEN /\ http = {}
                        /\ ev'.result = Ok("unified_alerts")
                        /\ tasks'[t].pc = "idle"
                   ELSE \/ /\ Cardinality(http) = 1
                           /\ \A i \in http : ev'.log[i].path = "/api/alerts"
                           /\ tasks'[t].pc = "await" /\ tasks'[t].stage = 2
                        \/ /\ http = {}
                           /\ NoTokenIn(environ', envFile', ev'.conn)
                           /\ ev'.result = Ok("empty_list")
              ELSE /\ http = {}
                   /\ tasks'[t].pc = "idle"
                   /\ ev'.result = IF ReturnedOf(ev').ok THEN Ok("legacy_alerts")
                                   ELSE Ok("empty_list")]_vars

C11_Witness ==
    /\ Responded /\ ev.op = "list_alerts"
    /\ ~Returned.result.ok
    /\ sent = MaxRequests
    /\ ev.result = Ok("empty_list")

\* C12: for every operation but list_alerts, get_health included, a failed
\* request is the outcome of the operation: the failure is what the caller
\* gets, and no further request is sent.
C12_FailureIsTerminalButForListAlerts ==
    (Responded /\ ev.op # "list_alerts" /\ ~Returned.result.ok) =>
        /\ ev.result = Returned.result
        /\ HttpSent = {}

\* C12 (amended): list_alerts and the version lookup of get_health are the
\* only places where a failed request is absorbed.  A failure of get_health's
\* first request (/health) is the outcome of the operation; a failure of its
\* second request (/frontend/settings) is absorbed and the health data is
\* returned with version unknown.  For every other operation the failure of
\* its request is the outcome.  No failed request is sent again.
C12_FailureIsTerminalButForAlertsAndVersion ==
    [][(ev'.act = "respond" /\ ev'.op # "list_alerts" /\ ~ReturnedOf(ev').ok) =>
          /\ HttpOf(ev') = {}
          /\ sent' = sent
          /\ tasks'[ev'.task].pc = "idle"
          /\ IF ev'.op = "get_health" /\ tasks[ev'.task].stage = 2
             THEN ev'.result = Ok("health+unknown")
             ELSE ev'.result = ReturnedOf(ev')]_vars

C12_Witness ==
    /\ Responded /\ ev.op = "get_health"
    /\ ~Returned.result.ok
    /\ sent = MaxRequests
    /\ ev.result = Ok("health+unknown")

\* the descriptor of connections.yaml for a connection name
ConfigOf(c) == Config[CHOOSE i \in 1..Len(Config) : Config[i].connection_name = c]

TokenValues == {<<"s">>, <<"e">>, <<"n">>, <<>>, ExternalToken}
Listed == ev.log[1].entries

\* C14: list_connections sends nothing and changes nothing; it returns one
\* entry per registered connection, in order, with exactly the fields name,
\* url, description, timeout and verify_ssl as configured; the output is the
\* same whatever the session tokens are, and it has no token field; the
\* timeout and verify_ssl it reports are those of the connection's client.
C14_ListConnectionsShowsNoToken ==
    ev.act = "list_connections" =>
        /\ HttpSent = {}
        /\ Len(Listed) = Cardinality(DOMAIN connectors)
        /\ \A i \in 1..Len(Listed) :
              LET c == AvailableConnections[i]
              IN  /\ DOMAIN Listed[i] = {"name", "url", "description", "timeout", "verify_ssl"}
                  /\ Listed[i].name = c
                  /\ Listed[i].url = ConfigOf(c).url
                  /\ Listed[i].description = ConfigOf(c).description
                  /\ Listed[i].verify_ssl = ConfigOf(c).verify_ssl
                  /\ Listed[i].timeout = connectors[c].timeout
                  /\ Listed[i].verify_ssl = connectors[c].verify
                  /\ "session_token" \notin DOMAIN Listed[i]
        /\ \A c \in DOMAIN connections, tk \in TokenValues :
              list_connections([connections EXCEPT ![c].session_token = tk]) = Listed

C14_Witness ==
    /\ ev.act = "list_connections"
    /\ Len(Listed) = Len(Config)
    /\ Listed[1].timeout # DefaultTimeout
    /\ Listed[2].verify_ssl = FALSE
    /\ \E c \in DOMAIN connections : rotated[c] = <<"n">>

\* the values of kind what that a message interpolates
Interpolated(msg, what) == {msg[i].v : i \in {j \in 1..Len(msg) : msg[j].part = what}}

\* C15: the message of every failed operation on a connection contains the
\* connection's name, whatever the failure (401, 403, another status, a
\* timeout, a transport failure), and never the connection's session token.
C15_ErrorsNameTheConnectionNotTheToken ==
    (ev.act \in {"dispatch", "respond"} /\ ev.conn \in DOMAIN connectors
        /\ ~ev.result.ok /\ ev.result.error.kind # "pending") =>
        LET msg == Message(ev.result.error)
        IN  /\ ev.conn \in Interpolated(msg, "connection_name")
            /\ connections[ev.conn].session_token
                  \notin Interpolated(msg, "connection_name") \cup Interpolated(msg, "env_var_name")

\* the request the step answered, and whether it failed
ArrivedOf(e) == e.log[CHOOSE i \in 1..Len(e.log) : e.log[i].kind = "response"]
AfterOf(e) == e.log[CHOOSE i \in 1..Len(e.log) : e.log[i].kind = "returned"].after
FailedOutcome(o) ==
    \/ o.kind \in {"timeout", "transport"}
    \/ o.kind = "response" /\ ~IsSuccess(o.status)

Called == ev.log[1]
WritesOf(e) == {i \in 1..Len(e.log) : e.log[i].kind = "store_write"}
LineEnd == {"\n", "\r"}

\* C17: a write of a rotated token changes only the line of .env whose key is
\* the connection's identifier: what precedes that line and what follows it,
\* line terminators and the presence or absence of a final newline included,
\* are the same characters after the write.
C17_WriteKeepsEveryOtherByte ==
    [][WritesOf(ev') # {} =>
          LET key == get_env_var_name(ev'.conn) \o <<"=">>
              n == Len(envFile)
          IN  \E i \in 0..n, j \in 1..(n + 1) :
                 /\ i < j
                 /\ i = 0 \/ envFile[i] \in LineEnd
                 /\ j = n + 1 \/ envFile[j] \in LineEnd
                 /\ \A k \in (i + 1)..(j - 1) : envFile[k] \notin LineEnd
                 /\ StartsWith(SubSeq(envFile, i + 1, j - 1), key)
                 /\ envFile' = SubSeq(envFile, 1, i) \o key \o ev'.log[1].token
                                  \o SubSeq(envFile, j, n)]_vars

\* C18: a rotation on one connection never changes another connection's
\* persisted entry, in-memory token or cookie (the claim's ground: distinct
\* names have distinct identifiers).
C18_RotationLeavesOtherConnectionsAlone ==
    [][\A b \in DOMAIN connections \ {ev'.conn} :
          /\ connections'[b] = connections[b]
          /\ connectors'[b] = connectors[b]
          /\ StoreValue(envFile', get_env_var_name(b)) = StoreValue(envFile, get_env_var_name(b))]_vars

\* C19: update_session_token called again with the token it was just called
\* with, on the same connection, leaves .env exactly as the first call left it.
C19_SecondWriteOfSameTokenChangesNothing ==
    [][(ev.act = "update_session_token" /\ ev'.act = "update_session_token"
          /\ ev'.conn = ev.conn /\ ev'.log[1].token = ev.log[1].token) =>
          envFile' = envFile]_vars

\* the token written is the one .env already held, and the file was written
C19_Witness ==
    /\ ev.act = "update_session_token"
    /\ Called.stored = Called.token
    /\ WritesOf(ev) # {}
    /\ StoreValue(envFile, get_env_var_name(ev.conn)) = Called.token

\* C20: when .env does not exist, a 2xx response carrying a new
\* grafana_session token still makes the in-memory token and the cookie the
\* new token; no file is created, nothing is written and the request does
\* not fail.
C20_RotationWithoutFileStaysInMemory ==
    [][(envFile = NoFile /\ ev'.act = "respond"
          /\ ArrivedOf(ev').outcome.kind = "response"
          /\ IsSuccess(ArrivedOf(ev').outcome.status)
          /\ ArrivedOf(ev').outcome.session \notin {NoVal, ArrivedOf(ev').before.token}) =>
          /\ AfterOf(ev').token = ArrivedOf(ev').outcome.session
          /\ AfterOf(ev').cookie = ArrivedOf(ev').outcome.session
          /\ AfterOf(ev').store = NoVal
          /\ envFile' = NoFile
          /\ WritesOf(ev') = {}
          /\ ReturnedOf(ev').ok]_vars

C20_Witness ==
    /\ Responded /\ CarriesNewToken /\ IsSuccess(Arrived.outcome.status)
    /\ envFile = NoFile
    /\ ev.op = "list_folders" /\ ev.result.ok
    /\ connections[ev.conn].session_token = <<"n">>
    /\ connectors[ev.conn].cookie = <<"n">>

-----------------------------------------------------------------------------
(* Claims about the Set-Cookie headers of one response *)

\* what a Set-Cookie header sets: the cookie-pair opens the header, its name
\* ends at the first "=", its value at the first ";"
NameOf(header) == BeforeFirst(header, "=")
ValueOf(header) == BeforeFirst(AfterFirst(header, "=") \o <<";">>, ";")
\* the positions of the headers of the latest call that set grafana_session
SessionHeaders(e) == {i \in 1..Len(e.log[1].headers) : NameOf(e.log[1].headers[i]) = COOKIE_NAME}

\* C21: when exactly one Set-Cookie header of a response sets the cookie
\* named grafana_session, the token becomes that header's value; when none
\* does, whatever other cookies the response sets (grafana_session_expiry,
\* x_grafana_session, a value that contains grafana_session=), the token, the
\* cookie and .env stay as they were.
C21_OnlyTheSessionCookieSetsTheToken ==
    [][ev'.act = "check_response" =>
          LET hs == ev'.log[1].headers
              at == SessionHeaders(ev')
          IN  /\ Cardinality(at) = 1 =>
                    connections'[ev'.conn].session_token =
                        unquote(ValueOf(hs[CHOOSE i \in at : TRUE]))
              /\ at = {} =>
                    /\ connections' = connections
                    /\ connectors' = connectors
                    /\ envFile' = envFile]_vars

\* the session cookie came between two cookies of other names and was applied
C21_Witness ==
    /\ ev.act = "check_response"
    /\ Len(Called.headers) = 2
    /\ Cardinality(SessionHeaders(ev)) = 1
    /\ \E i \in 1..2 : NameOf(Called.headers[i]) = COOKIE_NAME \o <<"_", "e", "x", "p", "i", "r", "y">>
    /\ connections[ev.conn].session_token = <<"n">>
    /\ WritesOf(ev) # {}

-----------------------------------------------------------------------------
(* Claims about connection names *)

\* the characters of [A-Za-z0-9_-]
WellFormedName(name) ==
    /\ name # <<>>
    /\ \A i \in 1..Len(name) :
          \/ InSeq(name[i], LowerCase) \/ InSeq(name[i], UpperCase) \/ InSeq(name[i], Digits)
          \/ name[i] \in {"_", "-"}

\* C22: constructing the connection record fails for every name with a
\* character outside [A-Za-z0-9_-] and succeeds for every non-empty name made
\* of those characters only; no request is ever sent for a connection whose
\* name is not of that form.
C22_ExactlyTheWellFormedNamesLoad ==
    /\ ev.act = "load" /\ ev.conn # <<>> /\ WellFormedName(ev.conn) => ev.result.ok
    /\ ev.act = "load" /\ ev.conn # <<>> /\ ~WellFormedName(ev.conn) =>
          ~ev.result.ok /\ ev.result.error.kind = "ValidationError"
    /\ \A n \in DOMAIN connectors : WellFormedName(n)
    /\ \A h \in HttpSent : WellFormedName(h.conn)

-----------------------------------------------------------------------------
(* Claims about the operations with arguments *)

\* the panel list of a reply body, [] when the body has none
PanelsOf(body) ==
    IF "dashboard" \in DOMAIN body /\ "panels" \in DOMAIN body.dashboard
    THEN body.dashboard.panels ELSE <<>>
FetchedOk == Arrived.outcome.kind = "response" /\ IsSuccess(Arrived.outcome.status)

\* C23: get_dashboard_panel returns a panel of the fetched dashboard whose id
\* is panel_id when the panel list has one; when the dashboard was fetched
\* and has none, it fails with a not-found error whose message carries the
\* panel id and the dashboard uid; a not-found error occurs in no other case
\* (never before the request, never when the fetch failed).
C23_PanelFoundOrNotFound ==
    (ev.act \in {"dispatch", "respond"} /\ ev.op.name = "get_dashboard_panel") =>
       /\ (Responded /\ FetchedOk) =>
             LET panels == PanelsOf(Arrived.outcome.text)
                 match == {i \in 1..Len(panels) :
                              "id" \in DOMAIN panels[i] /\ panels[i].id = ev.op.panel_id}
             IN  IF match # {}
                 THEN ev.result.ok /\ \E i \in match : ev.result.value = panels[i]
                 ELSE /\ ~ev.result.ok
                      /\ ev.result.error.kind = "NotFound"
                      /\ Interpolated(Message(ev.result.error), "panel_id") = {ev.op.panel_id}
                      /\ Interpolated(Message(ev.result.error), "dashboard_uid")
                            = {ev.op.dashboard_uid}
       /\ ~(Responded /\ FetchedOk) => ev.result.error.kind # "NotFound"

\* the dashboard has panels but none with the id asked for
C23_Witness ==
    /\ Responded /\ ev.op.name = "get_dashboard_panel" /\ ev.op.panel_id = 2
    /\ FetchedOk
    /\ Len(PanelsOf(Arrived.outcome.text)) = 3
    /\ ev.result.error.kind = "NotFound"

\* C24: explore_query called with additional_options that contain queries,
\* from, to, maxDataPoints or intervalMs fails with an invalid-argument error;
\* the call reads no token, sends no request and leaves the process
\* environment, the connection and its client as they were.
C24_ReservedOptionFailsBeforeAnyRequest ==
    [][(ev'.act = "dispatch" /\ ev'.op.name = "explore_query"
          /\ DOMAIN ev'.op.additional_options \cap ReservedKeys # {}) =>
          /\ ~ev'.result.ok
          /\ ev'.result.error.kind = "InvalidArgument"
          /\ ev'.log = <<>>
          /\ UNCHANGED <<environ, envFile, connections, connectors, tasks, sent>>]_vars

\* a reserved key among free ones was refused
C24_Witness ==
    /\ ev.act = "dispatch" /\ ev.op.name = "explore_query"
    /\ DOMAIN ev.op.additional_options = {"requestId", "maxDataPoints"}
    /\ ev.result.error.kind = "InvalidArgument"
    /\ sent = 0

-----------------------------------------------------------------------------
(* Claims about the end of the process *)

\* C25: once the process has shut down (server.run() returned, was
\* interrupted or raised), the HTTP session of every connection in the
\* registry is closed, as cleanup() would leave them.
C25_ShutdownClosesEverySession ==
    phase = "exited" =>
       /\ \A n \in DOMAIN connectors : connectors[n].closed
       /\ connectors = cleanup(connectors)

\* C26: the value of a grafana_session cookie is percent-decoded before it is
\* compared with the current token and before it is stored: the value
\* abc%2B123%3Dtest makes the token, the cookie and the line written to .env
\* abc+123=test, and when the token already is abc+123=test nothing is
\* updated or written.
C26_CookieValueIsPercentDecoded ==
    [][(ev'.act = "check_response" /\ Cardinality(SessionHeaders(ev')) = 1
          /\ \E i \in SessionHeaders(ev') : ValueOf(ev'.log[1].headers[i]) = EncodedValue) =>
          IF connections[ev'.conn].session_token = DecodedValue
          THEN /\ WritesOf(ev') = {}
               /\ ev'.result.ok
               /\ UNCHANGED <<connections, connectors, envFile>>
          ELSE /\ connections'[ev'.conn].session_token = DecodedValue
               /\ \A i \in WritesOf(ev') : ev'.log[i].value = DecodedValue
               /\ ev'.result.ok =>
                     connectors'[ev'.conn].cookie = DecodedValue
               /\ (envFile # NoFile /\ fileWritable) =>
                     StoreValue(envFile', get_env_var_name(ev'.conn)) = DecodedValue]_vars

\* the encoded value arrived while the token was another one, and was written
C26_Witness ==
    /\ ev.act = "check_response"
    /\ Called.headers = <<SetCookie(COOKIE_NAME, EncodedValue)>>
    /\ connections[ev.conn].session_token = DecodedValue
    /\ connectors[ev.conn].cookie = DecodedValue
    /\ WritesOf(ev) # {}
    /\ envFile = Line(VarA, DecodedValue)

\* C27: when several Set-Cookie headers of one response set grafana_session
\* to different values, the first of them in header order is applied: the
\* token, the cookie and the entry of .env are the first header's value
\* afterwards, and .env is written at most once.
C27_FirstSessionHeaderWins ==
    [][(ev'.act = "check_response" /\ Cardinality(SessionHeaders(ev')) >= 2
          /\ \A i, j \in SessionHeaders(ev') :
                 i # j => ValueOf(ev'.log[1].headers[i]) # ValueOf(ev'.log[1].headers[j])) =>
          LET first == unquote(ValueOf(ev'.log[1].headers[First(SessionHeaders(ev'))]))
          IN  /\ connections'[ev'.conn].session_token = first
              /\ ev'.result.ok => connectors'[ev'.conn].cookie = first
              /\ (envFile # NoFile /\ fileWritable) =>
                    StoreValue(envFile', get_env_var_name(ev'.conn)) = first
              /\ Cardinality(WritesOf(ev')) <= 1]_vars

-----------------------------------------------------------------------------
(* Claims about an interrupted rotation *)

FailedWrite(e) == \E i \in 1..Len(e.log) : e.log[i].kind = "store_write_failed"

\* C28: a detected rotation updates the in-memory token, then writes .env,
\* then sets the client's cookie: when the write fails the token is already
\* the new one and the cookie and .env are still the old ones; when it
\* succeeds all three are the new token.  After a rotation that stopped at
\* the failed write, the next request that is sent carries a cookie equal to
\* the in-memory token and to what the credential source (os.environ
\* refreshed from .env) holds.
C28_InterruptedRotationHealsOnNextRead ==
    [][/\ (ev'.act = "respond" /\ FailedWrite(ev')) =>
             /\ AfterOf(ev').token = ArrivedOf(ev').outcome.session
             /\ AfterOf(ev').token # ArrivedOf(ev').before.token
             /\ AfterOf(ev').cookie = ArrivedOf(ev').before.cookie
             /\ AfterOf(ev').store = ArrivedOf(ev').before.store
       /\ (ev'.act = "respond" /\ WritesOf(ev') # {}) =>
             /\ AfterOf(ev').token = ArrivedOf(ev').outcome.session
             /\ AfterOf(ev').cookie = ArrivedOf(ev').outcome.session
             /\ AfterOf(ev').store = ArrivedOf(ev').outcome.session
       /\ (ev'.act \in {"dispatch", "respond"}
             /\ (ev'.conn \in interrupted \/ FailedWrite(ev'))) =>
             \A i \in HttpOf(ev') :
                /\ ev'.log[i].cookie = connections'[ev'.conn].session_token
                /\ ev'.log[i].cookie = connectors'[ev'.conn].cookie
                /\ ev'.log[i].cookie = getenv(environ', get_env_var_name(ev'.conn))
                /\ ev'.log[i].cookie = StoreValue(envFile', get_env_var_name(ev'.conn))
                /\ ev'.conn \notin interrupted']_vars

\* a request goes out with the token of .env after the rotation to n stopped
\* at the write of a read-only .env
C28_Witness ==
    /\ ev.act = "dispatch" /\ HttpSent # {}
    /\ rotated[ev.conn] = <<"n">>
    /\ ~fileWritable /\ envFile # NoFile
    /\ connections[ev.conn].session_token = <<"s">>
    /\ connectors[ev.conn].cookie = <<"s">>

\* C29: whatever responses were processed, a Set-Cookie header that sets
\* grafana_session to an empty value included, every loaded connection keeps
\* a non-empty in-memory token and a non-empty entry in .env (when it has
\* one), and its next request can still read a token and be sent.
C29_EveryConnectionKeepsAUsableCredential ==
    phase = "running" =>
       \A c \in DOMAIN connections :
          /\ connections[c].session_token # <<>>
          /\ StoreValue(envFile, get_env_var_name(c)) # <<>>
          /\ ~Unresolvable(c)

\* C30: list_alerts called with a folder_uid returns only alerts of the folder
\* with exactly that uid, from the unified endpoint and from the legacy
\* fallback alike.  The folder of an alert is the namespace of a unified rule,
\* and the folder of the dashboard of a legacy alert.
C30_AlertsAreOfTheFolderAskedFor ==
    (ev.act \in {"dispatch", "respond"} /\ ev.op.name = "list_alerts"
       /\ Truthy(ev.op.folder_uid) /\ ev.result.ok) =>
       \A i \in 1..Len(ev.result.value) :
          ev.op.folder_uid = IF "folder" \in DOMAIN ev.result.value[i]
                             THEN ev.result.value[i].folder
                             ELSE DashboardFolder[ev.result.value[i].dashboard_uid]

====
